---- MODULE Spec2Model ----
(***************************************************************************)
(* Model of the request/response correlation of the MCP test clients and   *)
(* of the bounded tool-calling loop of the LLM clients.                    *)
(*                                                                         *)
(*   SpecStdio : McpStdioTestClient (newline-delimited JSON-RPC over the   *)
(*               child's stdin/stdout, pendingRequests, 30 s timers)       *)
(*   SpecHttp  : McpHttpTestClient, McpNotionClient, McpTestClient (one    *)
(*               HTTP POST per request, mcp-session-id header)             *)
(*   SpecLoop  : processQuery of LLMMcpNotionClient and GenericMcpClient   *)
(*               (model call, tool calls, transcript, iteration ceiling)   *)
(***************************************************************************)
EXTENDS Integers, Sequences, FiniteSets, TLC

\* ------------------------------------------------------------------ bounds
\* number of makeRequest calls one run of the stdio client performs
MaxCalls == 2
\* number of characters one stdout 'data' event delivers at most
MaxChunk == 2
\* number of characters of an incomplete record kept in the buffer at most
MaxBuf == 1
\* number of complete records in the byte stream the server writes
MaxRecords == 3
\* number of requests one HTTP client sends
MaxHttpReqs == 3
\* number of tool invocations one model reply requests at most
MaxToolCalls == 2
\* number of times, in one run, the user, the model or the MCP server departs
\* from the plain exchange (one question; replies that hold either a text or
\* one invocation with a JSON object as arguments, answered by a text block)
MaxDeviations == 2

\* the longest token; the shortest has three characters less
MaxTokenLen == 12

\* lines of an event-stream body
MaxSseLines == 3

\* content blocks of a tool result
MaxBlocks == 2

\* entries of the transcript handed to llmClient.chat
MaxMessages == 7

\* ------------------------------------------------------ program constants
\* let maxIterations = 5   (LLMMcpNotionClient.processQuery)
MaxIterationsLLM == 5
\* let maxIterations = 10  (GenericMcpClient.processQuery)
MaxIterationsGeneric == 10

\* ------------------------------------------------------------- state
VARIABLES
  \* ---- McpStdioTestClient
  server,           \* the child process: "running" or "exited"
  proc,             \* the client process: "running", or the code it exited with
  requestId,        \* private requestId: number = 1
  pendingRequests,  \* Map id -> {resolve, reject}; the closures are named by their call
  buffer,           \* private buffer: string (a sequence of characters)
  calls,            \* one record per makeRequest call made so far (its promise and timer)
  stdin,            \* ids of the requests written to the child's stdin, in order
  lastData,         \* what the last stdout 'data' event handled (observation only)
  \* ---- the HTTP clients
  hClient,          \* which class the client is an instance of
  hSessionId,       \* private sessionId: string
  hRequestId,       \* private requestId: number = 1
  hLast,            \* the request last handed to fetch, with its headers
  hInflight,        \* whether that request is still awaiting its response
  hOutcome,         \* how the last completed makeRequest ended
  hInit,            \* what the responses seen so far carried (observation only)
  \* ---- processQuery
  qClient,              \* which class runs the loop
  conversationHistory,  \* private conversationHistory: LLMMessage[]
  pc,                   \* where processQuery is suspended, or how it ended
  iteration,            \* let iteration = 0
  turn,                 \* the tool_calls of the assistant message being handled, and
                        \* the index of the invocation awaiting its tool result
  qResult,              \* what processQuery returned or threw
  modelCalls,           \* calls of llmClient.chat in this query (observation only)
  turnLog,              \* per invocation handled in this turn: what was sent to the
                        \* MCP server and which entry was appended (observation only)
  qStats,               \* what this query has seen so far (observation only)
  mainExit,             \* the code main() of the LLM client exited with, or "none"
  \* ---- the bytes of the server's stdout
  wire,                 \* bytes the server has written and the client has not read yet
  wireAll,              \* every byte the server writes in this run
  handled,              \* the replies handled so far, in order (observation only)
  \* ---- the scripts
  launcher,             \* a server launcher: its child, the events awaiting their
                        \* handler, and how it exited
  testRun,              \* runTests() of a test client: the test it is at, the
                        \* replies it got, and how it exited
  startup,              \* the start of a script: its environment, the statement it
                        \* is at, and what it has done so far
  console,              \* what a script has printed: its tokens and its lines
  \* ---- pure functions, applied to one input
  sse,                  \* an event-stream body and what makeRequest made of it
  extract,              \* the outcome of a tool invocation and the entry made of it
  chat                  \* a provider configuration, a transcript and the request made of it

stdioVars == <<server, proc, requestId, pendingRequests, buffer, calls, stdin, lastData>>

httpVars == <<hClient, hSessionId, hRequestId, hLast, hInflight, hOutcome, hInit>>

loopVars == <<qClient, conversationHistory, pc, iteration, turn, qResult, modelCalls,
              turnLog, qStats, mainExit>>

vars == <<server, proc, requestId, pendingRequests, buffer, calls, stdin, lastData,
          hClient, hSessionId, hRequestId, hLast, hInflight, hOutcome, hInit,
          qClient, conversationHistory, pc, iteration, turn, qResult, modelCalls,
          turnLog, qStats, mainExit,
          wire, wireAll, handled,
          launcher, testRun, startup, console,
          sse, extract, chat>>

wireVars == <<wire, wireAll, handled>>

funVars == <<sse, extract, chat>>

scriptVars == <<launcher, testRun, startup, console, funVars>>

\* what the actions of one component leave alone
notStdio == <<httpVars, loopVars, wireVars, scriptVars>>

notHttp == <<stdioVars, loopVars, wireVars, scriptVars>>

notLoop == <<stdioVars, httpVars, wireVars, scriptVars>>

notScripts == <<stdioVars, httpVars, loopVars, wireVars>>

notLauncher == <<notScripts, testRun, startup, console, funVars>>

notTestRun == <<notScripts, launcher, startup, console, funVars>>

notStartup == <<notScripts, launcher, testRun, console, funVars>>

notConsole == <<notScripts, launcher, testRun, startup, funVars>>

notSse == <<notScripts, launcher, testRun, startup, console, extract, chat>>

notExtract == <<notScripts, launcher, testRun, startup, console, sse, chat>>

notChat == <<notScripts, launcher, testRun, startup, console, sse, extract>>

\* ------------------------------------------------------ stdio: characters
\* The stream is modelled over a small alphabet.  "n" is the newline.  A record
\* is the text of one line:  <<d>> is the JSON of a result reply with id d and
\* <<"e", d>> the JSON of an error reply with id d; every other line is text
\* that JSON.parse rejects.
Digits == {ToString(i) : i \in 1..MaxCalls}

Alphabet == {"n", "e"} \cup Digits

IdOf(ch) == CHOOSE i \in 1..MaxCalls : ToString(i) = ch

Chunks == UNION {[1..k -> Alphabet] : k \in 1..MaxChunk}

\* the characters a reply may hold after its id, inside a JSON string: the
\* two-byte character U+00E9 and the replacement character U+FFFD
TextChars == {"U+00E9", "U+FFFD"}

IsText(s) == \A i \in 1..Len(s) : s[i] \in TextChars

\* JSON.parse(line): the response object (ok), or a SyntaxError (~ok); a reply
\* is <<d>> or <<"e", d>> followed by the characters of its text
JSONparse(line) ==
  IF Len(line) >= 1 /\ line[1] \in Digits /\ IsText(Tail(line))
    THEN [ok |-> TRUE, id |-> IdOf(line[1]), error |-> FALSE, text |-> Tail(line)]
  ELSE IF Len(line) >= 2 /\ line[1] = "e" /\ line[2] \in Digits /\ IsText(Tail(Tail(line)))
    THEN [ok |-> TRUE, id |-> IdOf(line[2]), error |-> TRUE, text |-> Tail(Tail(line))]
  ELSE [ok |-> FALSE, id |-> 0, error |-> FALSE, text |-> <<>>]

\* Buffer.prototype.toString() of one chunk: UTF-8 decoding, where the bytes
\* C3 A9 next to each other are U+00E9 and a byte of an incomplete sequence
\* becomes U+FFFD; the other bytes are ASCII characters
RECURSIVE toString(_)
toString(bytes) ==
  IF bytes = <<>> THEN <<>>
  ELSE IF Len(bytes) >= 2 /\ bytes[1] = "C3" /\ bytes[2] = "A9"
    THEN <<"U+00E9">> \o toString(Tail(Tail(bytes)))
  ELSE IF bytes[1] \in {"C3", "A9"}
    THEN <<"U+FFFD">> \o toString(Tail(bytes))
  ELSE <<bytes[1]>> \o toString(Tail(bytes))

\* String.prototype.split('\n'): the pieces between the newlines, the last
\* piece being what follows the last newline (possibly empty)
RECURSIVE SplitAcc(_, _, _)
SplitAcc(s, cur, acc) ==
  IF s = <<>> THEN Append(acc, cur)
  ELSE IF Head(s) = "n" THEN SplitAcc(Tail(s), <<>>, Append(acc, cur))
  ELSE SplitAcc(Tail(s), Append(cur, Head(s)), acc)

Split(s) == SplitAcc(s, <<>>, <<>>)

\* ------------------------------------------------------ stdio: promises
\* A promise settles once: resolve/reject on a settled promise does nothing.
Settle(cs, c, how, by) ==
  IF cs[c].outcome = "pending"
    THEN [cs EXCEPT ![c].outcome = how, ![c].settledBy = by]
    ELSE cs

\* Map.prototype.delete
MapDelete(m, k) == [x \in DOMAIN m \ {k} |-> m[x]]

\* Map.prototype.set
MapSet(m, k, v) == [x \in DOMAIN m \cup {k} |-> IF x = k THEN v ELSE m[x]]

\* (variant) replies matched by arrival order: the oldest pending call is taken
handleResponseByArrival(st, response) ==
  IF DOMAIN st.pending /= {}
    THEN LET k == CHOOSE x \in DOMAIN st.pending : \A y \in DOMAIN st.pending : x <= y
             c == st.pending[k]
         IN [pending |-> MapDelete(st.pending, k),
             calls   |-> Settle(st.calls, c,
                                IF response.error THEN "rejected" ELSE "resolved",
                                response.id)]
    ELSE st

\* (variant) a reply with an unknown id is taken as an error for every pending call
handleResponseUnknownFailsAll(st, response) ==
  IF response.id \in DOMAIN st.pending
    THEN LET c == st.pending[response.id] IN
         [pending |-> MapDelete(st.pending, response.id),
          calls   |-> Settle(st.calls, c,
                             IF response.error THEN "rejected" ELSE "resolved",
                             response.id)]
    ELSE [pending |-> <<>>,
          calls   |-> [c \in DOMAIN st.calls |->
                        IF st.calls[c].outcome = "pending"
                          THEN [st.calls[c] EXCEPT !.outcome = "rejected",
                                                   !.settledBy = response.id]
                          ELSE st.calls[c]]]

\* (variant) the caller is settled but its entry stays in the map
handleResponseKeepsEntry(st, response) ==
  IF response.id \in DOMAIN st.pending
    THEN [pending |-> st.pending,
          calls   |-> Settle(st.calls, st.pending[response.id],
                             IF response.error THEN "rejected" ELSE "resolved",
                             response.id)]
    ELSE st

\* handleResponse(response), on the pair st = [pending, calls]
handleResponse(st, response) ==
  IF response.id \in DOMAIN st.pending
    THEN LET c == st.pending[response.id] IN
         [pending |-> MapDelete(st.pending, response.id),
          calls   |-> Settle(st.calls, c,
                             IF response.error THEN "rejected" ELSE "resolved",
                             response.id)]
    ELSE st

RECURSIVE processLines(_, _, _)

\* (variant) a loop that gives up at the first line JSON.parse rejects
processLinesUntilMalformed(lines, st, ev) ==
  IF lines = <<>> \/ (Head(lines) /= <<>> /\ ~JSONparse(Head(lines)).ok)
    THEN [st |-> st, ev |-> ev]
    ELSE IF Head(lines) = <<>>
      THEN processLines(Tail(lines), st, ev)
      ELSE LET r   == JSONparse(Head(lines))
               st2 == handleResponse(st, r)
           IN processLines(Tail(lines), st2,
                Append(ev, [id |-> r.id, text |-> r.text,
                            known |-> r.id \in DOMAIN st.pending, same |-> st2 = st]))

\* the loop of processBuffer over the complete lines: blank lines and lines that
\* JSON.parse rejects are skipped; ev collects, per line that parsed, the id
\* handleResponse was given, whether that id was pending, and whether the call
\* left pendingRequests and every promise as they were
processLines(lines, st, ev) ==
  IF lines = <<>> THEN [st |-> st, ev |-> ev]
  ELSE LET line == Head(lines)
           r    == JSONparse(line)
       IN IF line = <<>> \/ ~r.ok
            THEN processLines(Tail(lines), st, ev)
            ELSE LET st2 == handleResponse(st, r) IN
                 processLines(Tail(lines), st2,
                   Append(ev, [id    |-> r.id,
                               text  |-> r.text,
                               known |-> r.id \in DOMAIN st.pending,
                               same  |-> st2 = st]))

\* processBuffer(): split, keep the last piece as the new buffer, handle the rest
processBuffer(buf, st) ==
  LET lines == Split(buf)
      rest  == lines[Len(lines)]
      done  == processLines(SubSeq(lines, 1, Len(lines) - 1), st, <<>>)
  IN [buffer |-> rest, st |-> done.st, ev |-> done.ev]

\* id: this.requestId++  (the value the counter takes after the request)
NextRequestId(r) == r + 1

\* (variant) the timeout rejects the caller but leaves the entry in the map
timeoutCallbackKeepsEntry(st, c) ==
  LET id == st.calls[c].id IN
  IF id \in DOMAIN st.pending
    THEN [pending |-> st.pending,
          calls   |-> Settle(st.calls, c, "timeout", 0)]
    ELSE st

\* the body of the setTimeout callback of call c, on st = [pending, calls]
timeoutCallback(st, c) ==
  LET id == st.calls[c].id IN
  IF id \in DOMAIN st.pending
    THEN [pending |-> MapDelete(st.pending, id),
          calls   |-> Settle(st.calls, c, "timeout", 0)]
    ELSE st

\* what the timeout callback writes to the child's stdin (nothing: no retry)
timeoutWrites(st, c) == <<>>

\* ------------------------------------------------------ stdio: actions
\* makeRequest(method, params).  this.server is set by the constructor and its
\* stdin is a pipe, so the 'Serveur non disponible' branch is not taken.
MakeRequest ==
  /\ proc = "running"
  /\ Len(calls) < MaxCalls
  /\ LET id == requestId
         c  == Len(calls) + 1
     IN /\ requestId' = NextRequestId(requestId)
        /\ calls' = Append(calls, [id |-> id, outcome |-> "pending",
                                   settledBy |-> 0, timer |-> "armed",
                                   sentTo |-> server])
        /\ pendingRequests' = MapSet(pendingRequests, id, c)
        /\ stdin' = Append(stdin, id)
  /\ lastData' = <<>>
  /\ UNCHANGED <<server, proc, buffer>>
  /\ UNCHANGED notStdio

\* the 30 s timer of call c fires; the timers all have the same delay, so they
\* fire in the order the calls were made
TimerFire(c) ==
  /\ proc = "running"
  /\ c \in 1..Len(calls)
  /\ calls[c].timer = "armed"
  /\ \A b \in 1..(c - 1) : calls[b].timer = "fired"
  /\ LET st  == [pending |-> pendingRequests, calls |-> calls]
         st2 == timeoutCallback(st, c)
     IN /\ pendingRequests' = st2.pending
        /\ calls' = [st2.calls EXCEPT ![c].timer = "fired"]
        /\ stdin' = stdin \o timeoutWrites(st, c)
  /\ lastData' = <<>>
  /\ UNCHANGED <<server, proc, requestId, buffer>>
  /\ UNCHANGED notStdio

\* server.stdout.on('data'): append the chunk, then processBuffer()
StdoutData(chunk) ==
  /\ proc = "running"
  /\ \E out \in {processBuffer(buffer \o toString(chunk),
                                [pending |-> pendingRequests, calls |-> calls])} :
        /\ Len(out.buffer) <= MaxBuf
        /\ buffer' = out.buffer
        /\ pendingRequests' = out.st.pending
        /\ calls' = out.st.calls
        /\ lastData' = out.ev
  /\ UNCHANGED <<server, proc, requestId, stdin>>
  /\ UNCHANGED notStdio

\* server.on('exit', code): process.exit(code) unless code is 0 or null
ExitCodes == {"0", "1", "null"}

ServerExit(code) ==
  /\ proc = "running"
  /\ server = "running"
  /\ server' = "exited"
  /\ proc' = IF code /= "0" /\ code /= "null" THEN code ELSE proc
  /\ lastData' = <<>>
  /\ UNCHANGED <<requestId, pendingRequests, buffer, calls, stdin>>
  /\ UNCHANGED notStdio

\* server.on('error'): process.exit(1)
ServerError ==
  /\ proc = "running"
  /\ server = "running"
  /\ server' = "exited"
  /\ proc' = "1"
  /\ lastData' = <<>>
  /\ UNCHANGED <<requestId, pendingRequests, buffer, calls, stdin>>
  /\ UNCHANGED notStdio

StdioStart ==
  /\ server = "running"
  /\ proc = "running"
  /\ requestId = 1
  /\ pendingRequests = <<>>
  /\ buffer = <<>>
  /\ calls = <<>>
  /\ stdin = <<>>
  /\ lastData = <<>>

\* ---- the same handler, fed with the cuts of one byte stream
\* the records the server writes: replies 1 and 2, text that is not JSON, a
\* blank line, and reply 1 with the two bytes of U+00E9 in its text
Records == {<<"1">>, <<"2">>, <<"x">>, <<>>, <<"1", "C3", "A9">>}

RECURSIVE Flatten(_)
Flatten(recs) ==
  IF recs = <<>> THEN <<>> ELSE Head(recs) \o <<"n">> \o Flatten(Tail(recs))

\* up to MaxRecords complete records, then possibly the start of one more
Streams ==
  {Flatten(recs) \o tail :
     recs \in UNION {[1..k -> Records] : k \in 0..MaxRecords}, tail \in Records}

\* the state of a client that has sent two requests, ids 1 and 2, and awaits
\* the replies
TwoPending ==
  /\ server = "running"
  /\ proc = "running"
  /\ requestId = 3
  /\ pendingRequests = <<1, 2>>
  /\ buffer = <<>>
  /\ calls = [c \in 1..2 |-> [id |-> c, outcome |-> "pending", settledBy |-> 0,
                               timer |-> "armed", sentTo |-> "running"]]
  /\ stdin = <<1, 2>>
  /\ lastData = <<>>

\* server.stdout.on('data', data) for the next k bytes of the stream
WireData(k) ==
  /\ proc = "running"
  /\ k \in 1..Len(wire)
  /\ \E out \in {processBuffer(buffer \o toString(SubSeq(wire, 1, k)),
                                [pending |-> pendingRequests, calls |-> calls])} :
        /\ buffer' = out.buffer
        /\ pendingRequests' = out.st.pending
        /\ calls' = out.st.calls
        /\ lastData' = out.ev
        /\ handled' = handled \o out.ev
  /\ wire' = SubSeq(wire, k + 1, Len(wire))
  /\ UNCHANGED <<server, proc, requestId, stdin, wireAll>>
  /\ UNCHANGED <<httpVars, loopVars, scriptVars>>

WireStart(stream) ==
  /\ wire = stream
  /\ wireAll = stream
  /\ handled = <<>>

NextWire == \E k \in 1..Len(wire) : WireData(k)

NextStdio ==
  \/ MakeRequest
  \/ \E c \in 1..MaxCalls : TimerFire(c)
  \/ \E chunk \in Chunks : StdoutData(chunk)
  \/ \E code \in ExitCodes : ServerExit(code)
  \/ ServerError

\* ------------------------------------------------------ HTTP clients
HttpClients == {"McpHttpTestClient", "McpNotionClient", "McpTestClient"}

\* initialize(), listTools(), callTool(): the public methods that call makeRequest
Methods == {"initialize", "tools/list", "tools/call"}

\* values the server may put in the mcp-session-id response header
SessionValues == {"s1", "test-session-123"}

\* the third argument the public methods give makeRequest: initialize() passes
\* false, the others leave the default (true); McpTestClient has no such argument
includeSessionId(client, method) ==
  IF client = "McpTestClient" THEN TRUE ELSE method /= "initialize"

\* the mcp-session-id request header makeRequest builds ("none": not set)
sessionHeader(client, method, sid) ==
  IF client = "McpTestClient" THEN sid
  ELSE IF includeSessionId(client, method) /\ sid /= "" THEN sid
  ELSE "none"

\* (variant) the session id of the response is never stored
capturesSessionNever(client, method, sid, sidHeader) == FALSE

\* (variant) the rule of the test client in every client: the session id is
\* taken from the initialize response only
capturesSessionOfInitialize(client, method, sid, sidHeader) ==
  sidHeader /= "none" /\ method = "initialize"

\* whether makeRequest stores the session id sidHeader of a 2xx response
capturesSession(client, method, sid, sidHeader) ==
  /\ sidHeader /= "none"
  /\ \/ client = "McpNotionClient"
     \/ /\ client = "McpHttpTestClient"
        /\ (method = "initialize" \/ sid = "" \/ sid = "test-session-123")

\* the responses fetch may produce: it throws ("neterr"), or gives a response
\* with a non-2xx status ("status"), with or without an mcp-session-id header,
\* or a 2xx response ("ok") with or without that header and a body that parses
\* to a result envelope, to an error envelope, or does not parse
Responses ==
  {[kind |-> "neterr", sid |-> "none", body |-> "none"]}
  \cup [kind : {"status"}, sid : SessionValues \cup {"none"}, body : {"none"}]
  \cup [kind : {"ok"}, sid : SessionValues \cup {"none"},
        body : {"result", "error", "unparsable"}]

\* how makeRequest ends on a response: it returns the envelope or throws
requestOutcome(resp) ==
  IF resp.kind = "ok" /\ resp.body /= "unparsable" THEN "returned" ELSE "thrown"

\* makeRequest up to the await of fetch
HttpSend(method) ==
  /\ ~hInflight
  /\ hRequestId <= MaxHttpReqs
  /\ hRequestId' = hRequestId + 1
  /\ hLast' = [method    |-> method,
               id        |-> hRequestId,
               header    |-> sessionHeader(hClient, method, hSessionId),
               afterInit |-> hInit.returned,
               initSid   |-> hInit.sid,
               replaced  |-> hInit.replaced,
               anySid    |-> hInit.any,
               inits     |-> hInit.inits,
               lastSid   |-> hInit.lastSid,
               lastOkSid |-> hInit.lastOkSid]
  /\ hInflight' = TRUE
  /\ hOutcome' = "none"
  /\ hInit' = [hInit EXCEPT !.inits = IF method = "initialize" /\ @ < 2 THEN @ + 1 ELSE @]
  /\ UNCHANGED <<hClient, hSessionId>>
  /\ UNCHANGED notHttp

\* makeRequest from the response on
HttpResponse(resp) ==
  /\ hInflight
  /\ hInflight' = FALSE
  /\ hOutcome' = requestOutcome(resp)
  /\ hSessionId' =
       IF resp.kind = "ok" /\ capturesSession(hClient, hLast.method, hSessionId, resp.sid)
         THEN resp.sid ELSE hSessionId
  /\ LET lastSid   == IF resp.sid /= "none" THEN resp.sid ELSE hInit.lastSid
         lastOkSid == IF resp.kind = "ok" /\ resp.sid /= "none"
                        THEN resp.sid ELSE hInit.lastOkSid
     IN hInit' =
       IF hLast.method = "initialize" /\ requestOutcome(resp) = "returned"
         THEN [returned |-> TRUE, sid |-> resp.sid, replaced |-> FALSE,
               any |-> hInit.any \/ resp.sid /= "none", inits |-> hInit.inits,
               lastSid |-> lastSid, lastOkSid |-> lastOkSid]
         ELSE [hInit EXCEPT
                 !.replaced = @ \/ (resp.kind = "ok" /\ resp.sid /= "none"
                                      /\ resp.sid /= hInit.sid),
                 !.any = @ \/ (resp.kind = "ok" /\ resp.sid /= "none"),
                 !.lastSid = lastSid,
                 !.lastOkSid = lastOkSid]
  /\ UNCHANGED <<hClient, hRequestId, hLast>>
  /\ UNCHANGED notHttp

NoRequest == [method |-> "none", id |-> 0, header |-> "none", afterInit |-> FALSE,
              initSid |-> "none", replaced |-> FALSE, anySid |-> FALSE, inits |-> 0,
              lastSid |-> "none", lastOkSid |-> "none"]

\* after the constructor: this.sessionId = randomUUID() ("uuid")
HttpStart(client) ==
  /\ hClient = client
  /\ hSessionId = "uuid"
  /\ hRequestId = 1
  /\ hLast = NoRequest
  /\ hInflight = FALSE
  /\ hOutcome = "none"
  /\ hInit = [returned |-> FALSE, sid |-> "none", replaced |-> FALSE, any |-> FALSE,
              inits |-> 0, lastSid |-> "none", lastOkSid |-> "none"]

NextHttp ==
  \/ \E method \in Methods : HttpSend(method)
  \/ \E resp \in Responses : HttpResponse(resp)

\* ------------------------------------------------------ processQuery
LoopClients == {"LLMMcpNotionClient", "GenericMcpClient"}

maxIterations(client) ==
  IF client = "GenericMcpClient" THEN MaxIterationsGeneric ELSE MaxIterationsLLM

\* toolCall.function.arguments as the model writes it: the JSON text of an object
\* with properties, the text "{}", or text that is not JSON ("{not json")
ArgTexts == {"object", "{}", "malformed"}

\* the function arguments the invocation step ends up with: "given" (the parsed
\* object), "empty" (an object without properties), or "throws" (JSON.parse
\* threw and nothing caught it before the catch of the invocation)
parseArguments(client, text) ==
  IF text = "object" THEN "given"
  ELSE IF text = "{}" THEN "empty"
  ELSE IF client = "GenericMcpClient" THEN "empty"
  ELSE "throws"

\* ---- transcript entries
Entry(role, content, toolCalls, toolCallId) ==
  [role |-> role, content |-> content, tool_calls |-> toolCalls,
   tool_call_id |-> toolCallId]

\* an error entry that does not name its invocation
ErrorEntryWithoutId(tc) == Entry("tool", "Erreur: thrown", <<>>, 0)

\* the entry pushed by the catch of the invocation step
ErrorEntry(tc) == Entry("tool", "Erreur: thrown", <<>>, tc.id)

\* what the MCP server (or the transport) answers a tools/call with:
\*   "text"     a result whose content list starts with a text block
\*   "json"     a result without content list
\*   "error"    a JSON-RPC error envelope
\*   "throw"    the call throws (network, HTTP status, SDK error)
\*   "throw400" the call throws an error whose message holds "400"
ToolOutcomes(client) ==
  IF client = "GenericMcpClient"
    THEN {"text", "json", "throw", "throw400"}
    ELSE {"text", "json", "error", "throw"}

\* resultContent for an outcome that does not throw
resultContent(outcome) ==
  IF outcome = "text" THEN "text"
  ELSE IF outcome = "json" THEN "JSON.stringify(result)"
  ELSE "Erreur: remote"

\* the final answer without the fallback of the || operator
finalResponseRaw(content) == content

\* the final answer: assistantMessage.content || 'Aucune réponse générée'
finalResponse(content) ==
  IF content = "" THEN "Aucune réponse générée" ELSE content

\* a while condition that lets one more iteration through
loopContinuesOneMore(client, it) == it <= maxIterations(client)

\* the while condition of processQuery
loopContinues(client, it) == it < maxIterations(client)

\* ---- the synchronous stretch of the for loop: from invocation k on, up to
\* the first await of callTool (awaiting) or the end of the tool_calls
RECURSIVE runToolCalls(_, _, _, _, _)
runToolCalls(client, hist, log, tcs, k) ==
  IF k > Len(tcs)
    THEN [hist |-> hist, log |-> log, k |-> k, awaiting |-> FALSE]
    ELSE LET tc   == tcs[k]
             args == parseArguments(client, tc.args)
         IN IF args = "throws"
              THEN runToolCalls(client,
                     Append(hist, ErrorEntry(tc)),
                     Append(log, [id |-> tc.id, args |-> tc.args, sent |-> "none",
                                  requests |-> 0, outcome |-> "none",
                                  entry |-> "error"]),
                     tcs, k + 1)
              ELSE [hist |-> hist,
                    log  |-> Append(log, [id |-> tc.id, args |-> tc.args, sent |-> args,
                                          requests |-> 1, outcome |-> "none",
                                          entry |-> "none"]),
                    k |-> k, awaiting |-> TRUE]

\* the state processQuery reaches once run (a result of runToolCalls over the
\* invocations tcs) is known: suspended on callTool, or back at the while
\* condition, where it either calls the model again or throws the
\* iteration-limit error
AfterTools(tcs, run) ==
  /\ conversationHistory' = run.hist
  /\ turnLog' = run.log
  /\ turn' = [calls |-> tcs, k |-> run.k]
  /\ IF run.awaiting
       THEN /\ pc' = "awaitTool"
            /\ UNCHANGED <<iteration, modelCalls, qResult>>
       ELSE IF loopContinues(qClient, iteration)
         THEN /\ iteration' = iteration + 1
              /\ modelCalls' = modelCalls + 1
              /\ pc' = "awaitModel"
              /\ UNCHANGED qResult
         ELSE /\ pc' = "failed"
              /\ qResult' = [kind |-> "thrown",
                             value |-> "Nombre maximum d'itérations atteint"]
              /\ UNCHANGED <<iteration, modelCalls>>

\* ---- the replies of llmClient.chat
ToolCallLists == UNION {[1..n -> ArgTexts] : n \in 1..MaxToolCalls}

\* how far a reply is from the plain one
ReplyCost(argTexts) ==
  (Len(argTexts) - 1) + Cardinality({i \in 1..Len(argTexts) : argTexts[i] /= "object"})

ToolCallsOf(argTexts) == [i \in 1..Len(argTexts) |-> [id |-> i, args |-> argTexts[i]]]

\* a client that starts every question on a fresh transcript
pushQuestionOnFreshTranscript(hist) ==
  <<Entry("system", "prompt", <<>>, 0), Entry("user", "query", <<>>, 0)>>

\* (variant) a client that keeps the system message and drops the turns before
\* the new question
pushQuestionTrimmed(hist) == <<hist[1], Entry("user", "query", <<>>, 0)>>

\* this.conversationHistory.push({ role: 'user', content: query })
pushQuestion(hist) == Append(hist, Entry("user", "query", <<>>, 0))

\* a question after the first one departs from the plain exchange
QuestionCost == IF qStats.queries = 0 THEN 0 ELSE 1

\* processQuery(query) up to the first await of llmClient.chat
StartQuery ==
  /\ pc \in {"idle", "done", "failed"}
  /\ mainExit = "none"
  /\ qStats.deviations + QuestionCost <= MaxDeviations
  /\ conversationHistory' = pushQuestion(conversationHistory)
  /\ iteration' = 1
  /\ modelCalls' = 1
  /\ pc' = "awaitModel"
  /\ turn' = [calls |-> <<>>, k |-> 0]
  /\ turnLog' = <<>>
  /\ qResult' = [kind |-> "none", value |-> ""]
  /\ qStats' = [qStats EXCEPT !.replies = 0, !.allTools = TRUE, !.toolRequests = 0,
                              !.first = [n |-> 0, content |-> ""],
                              !.queries = @ + 1,
                              !.deviations = @ + QuestionCost]
  /\ UNCHANGED <<qClient, mainExit>>
  /\ UNCHANGED notLoop

\* llmClient.chat throws: the error leaves processQuery
ModelThrows ==
  /\ pc = "awaitModel"
  /\ qStats.deviations + 1 <= MaxDeviations
  /\ pc' = "failed"
  /\ qResult' = [kind |-> "thrown", value |-> "Erreur LLM"]
  /\ qStats' = [qStats EXCEPT !.allTools = FALSE, !.deviations = @ + 1]
  /\ UNCHANGED <<qClient, mainExit, conversationHistory, iteration, turn, modelCalls, turnLog>>
  /\ UNCHANGED notLoop

\* llmClient.chat returns a response without choices
ModelNoChoices ==
  /\ pc = "awaitModel"
  /\ qStats.deviations + 1 <= MaxDeviations
  /\ pc' = "failed"
  /\ qResult' = [kind |-> "thrown", value |-> "Aucune réponse du LLM"]
  /\ qStats' = [qStats EXCEPT !.allTools = FALSE, !.deviations = @ + 1]
  /\ UNCHANGED <<qClient, mainExit, conversationHistory, iteration, turn, modelCalls, turnLog>>
  /\ UNCHANGED notLoop

\* an answer without text departs from the plain exchange
AnswerCost(content) == IF content = "" THEN 1 ELSE 0

\* llmClient.chat returns a message without tool_calls: the final answer
ModelAnswers(content) ==
  /\ pc = "awaitModel"
  /\ qStats.deviations + AnswerCost(content) <= MaxDeviations
  /\ conversationHistory' = Append(conversationHistory, Entry("assistant", content, <<>>, 0))
  /\ pc' = "done"
  /\ qResult' = [kind |-> "returned", value |-> finalResponse(content)]
  /\ qStats' = [qStats EXCEPT !.replies = @ + 1, !.allTools = FALSE,
                  !.deviations = @ + AnswerCost(content),
                  !.first = IF qStats.replies = 0 THEN [n |-> 0, content |-> content] ELSE @]
  /\ UNCHANGED <<qClient, mainExit, iteration, turn, modelCalls, turnLog>>
  /\ UNCHANGED notLoop

\* llmClient.chat returns a message with tool_calls
ModelCallsTools(argTexts) ==
  /\ pc = "awaitModel"
  /\ qStats.deviations + ReplyCost(argTexts) <= MaxDeviations
  /\ LET tcs == ToolCallsOf(argTexts) IN
     \E run \in {runToolCalls(qClient,
                    Append(conversationHistory, Entry("assistant", "", tcs, 0)),
                    <<>>, tcs, 1)} :
        /\ AfterTools(tcs, run)
        /\ qStats' = [qStats EXCEPT
                        !.replies = @ + 1,
                        !.deviations = @ + ReplyCost(argTexts),
                        !.toolRequests = @ + (IF run.awaiting THEN 1 ELSE 0),
                        !.first = IF qStats.replies = 0
                                    THEN [n |-> Len(tcs), content |-> ""] ELSE @]
  /\ UNCHANGED <<qClient, mainExit>>
  /\ UNCHANGED notLoop

\* the record of the invocation awaiting its result, updated
LogLast(f, v) == [turnLog EXCEPT ![Len(turnLog)] = [@ EXCEPT ![f] = v]]

\* (variant) invocations run side by side: a result is put in front of the
\* results that came before it
ResumeToolsNewestFirst(e, log, cost) ==
  LET n == Len(conversationHistory)
      a == CHOOSE i \in 1..n :
             /\ conversationHistory[i].tool_calls /= <<>>
             /\ \A j \in (i + 1)..n : conversationHistory[j].tool_calls = <<>>
      hist == SubSeq(conversationHistory, 1, a) \o <<e>>
                \o SubSeq(conversationHistory, a + 1, n)
  IN \E run \in {runToolCalls(qClient, hist, log, turn.calls, turn.k + 1)} :
       /\ AfterTools(turn.calls, run)
       /\ qStats' = [qStats EXCEPT !.deviations = @ + cost,
                       !.toolRequests = @ + (IF run.awaiting THEN 1 ELSE 0)]

\* (variant) the entry is pushed in the try and once more after it
ResumeToolsTwice(e, log, cost) ==
  \E run \in {runToolCalls(qClient, Append(Append(conversationHistory, e), e), log,
                           turn.calls, turn.k + 1)} :
     /\ AfterTools(turn.calls, run)
     /\ qStats' = [qStats EXCEPT !.deviations = @ + cost,
                     !.toolRequests = @ + (IF run.awaiting THEN 1 ELSE 0)]

\* the rest of the for loop once invocation turn.k has appended entry e
ResumeTools(e, log, cost) ==
  \E run \in {runToolCalls(qClient, Append(conversationHistory, e), log,
                           turn.calls, turn.k + 1)} :
     /\ AfterTools(turn.calls, run)
     /\ qStats' = [qStats EXCEPT !.deviations = @ + cost,
                     !.toolRequests = @ + (IF run.awaiting THEN 1 ELSE 0)]

\* a workaround that sends the direct request after any failure
usesDirectCallOnAnyFailure(client, outcome, sent) ==
  client = "GenericMcpClient" /\ outcome \in {"throw", "throw400"}

\* the 400 workaround of GenericMcpClient: errorMessage.includes('400') &&
\* !hasArguments && this.transport
usesDirectCall(client, outcome, sent) ==
  client = "GenericMcpClient" /\ outcome = "throw400" /\ sent = "empty"

\* mcpClient.callTool settles
ToolReturns(outcome) ==
  /\ pc = "awaitTool"
  /\ outcome \in ToolOutcomes(qClient)
  /\ LET cost == IF outcome = "text" THEN 0 ELSE 1
         tc   == turn.calls[turn.k]
         sent == turnLog[Len(turnLog)].sent
     IN /\ qStats.deviations + cost <= MaxDeviations
        /\ IF usesDirectCall(qClient, outcome, sent)
             THEN /\ pc' = "awaitDirect"
                  /\ turnLog' = [LogLast("requests", 2) EXCEPT
                                    ![Len(turnLog)].outcome = outcome]
                  /\ qStats' = [qStats EXCEPT !.deviations = @ + cost,
                                              !.toolRequests = @ + 1]
                  /\ UNCHANGED <<conversationHistory, iteration, turn, qResult, modelCalls>>
             ELSE IF outcome \in {"throw", "throw400"}
               THEN ResumeTools(ErrorEntry(tc),
                                [LogLast("entry", "error") EXCEPT
                                   ![Len(turnLog)].outcome = outcome], cost)
               ELSE ResumeTools(Entry("tool", resultContent(outcome), <<>>, tc.id),
                                [LogLast("entry", "result") EXCEPT
                                   ![Len(turnLog)].outcome = outcome], cost)
  /\ UNCHANGED <<qClient, mainExit>>
  /\ UNCHANGED notLoop

\* what callToolDirect ends with: a result wrapped as one text block, or a throw
DirectOutcomes == {"result", "throw"}

\* callToolDirect settles (GenericMcpClient only)
DirectReturns(outcome) ==
  /\ pc = "awaitDirect"
  /\ LET tc == turn.calls[turn.k]
     IN IF outcome = "result"
          THEN ResumeTools(Entry("tool", "JSON.stringify(data.result)", <<>>, tc.id),
                           LogLast("entry", "result"), 0)
          ELSE ResumeTools(ErrorEntry(tc), LogLast("entry", "error"), 0)
  /\ UNCHANGED <<qClient, mainExit>>
  /\ UNCHANGED notLoop

\* the answer "quit", "exit" or "q" to the prompt of askQuestion: shutdown,
\* then process.exit(0)
Quit ==
  /\ pc \in {"idle", "done", "failed"}
  /\ mainExit = "none"
  /\ mainExit' = "0"
  /\ UNCHANGED <<qClient, conversationHistory, pc, iteration, turn, qResult, modelCalls,
                 turnLog, qStats>>
  /\ UNCHANGED notLoop

\* after initialize(): the transcript holds the system message
LoopStart(client) ==
  /\ qClient = client
  /\ conversationHistory = <<Entry("system", "prompt", <<>>, 0)>>
  /\ pc = "idle"
  /\ iteration = 0
  /\ turn = [calls |-> <<>>, k |-> 0]
  /\ qResult = [kind |-> "none", value |-> ""]
  /\ modelCalls = 0
  /\ turnLog = <<>>
  /\ qStats = [replies |-> 0, allTools |-> TRUE, toolRequests |-> 0, deviations |-> 0,
               first |-> [n |-> 0, content |-> ""], queries |-> 0]
  /\ mainExit = "none"

NextLoop ==
  \/ StartQuery
  \/ Quit
  \/ ModelThrows
  \/ ModelNoChoices
  \/ \E content \in {"", "answer"} : ModelAnswers(content)
  \/ \E argTexts \in ToolCallLists : ModelCallsTools(argTexts)
  \/ \E outcome \in {"text", "json", "error", "throw", "throw400"} : ToolReturns(outcome)
  \/ \E outcome \in DirectOutcomes : DirectReturns(outcome)

\* ------------------------------------------------------ server launchers
\* start-server-official.ts and start-server-custom.ts: spawn the server, then
\* handle 'error' and 'exit' of the child and SIGINT / SIGTERM of the operator
Launchers == {"start-server-official", "start-server-custom"}

Signals == {"SIGINT", "SIGTERM"}

\* the exit codes of the child: 0, non-zero codes, and null (killed by a signal)
ChildCodes == {"0", "1", "2", "null"}

\* (variant) process.exit(code): null counts as 0
exitStatusOfCode(code) == IF code = "null" THEN "0" ELSE code

\* process.exit(code || 1), reached with code !== 0
exitStatus(code) == IF code = "null" THEN "1" ELSE code

Alive == launcher.exit = "none"

\* the operator sends SIGINT (Ctrl+C) or SIGTERM to the launcher
OperatorSignal(sig) ==
  /\ Alive
  /\ launcher.script \in Launchers
  /\ sig \notin launcher.events
  /\ launcher' = [launcher EXCEPT !.events = @ \cup {sig},
                                  !.requested = TRUE,
                                  !.childAtRequest = launcher.child]
  /\ UNCHANGED notLauncher

\* the child ends by itself, or killed by a signal (code null); the launcher
\* gets the 'exit' event
ChildEnds(code) ==
  /\ Alive
  /\ launcher.script \in Launchers
  /\ launcher.child = "running"
  /\ launcher' = [launcher EXCEPT !.child = code, !.events = @ \cup {"exit"}]
  /\ UNCHANGED notLauncher

\* the child could not be spawned: the launcher gets the 'error' event
ChildFails ==
  /\ Alive
  /\ launcher.script \in Launchers
  /\ launcher.child = "running"
  /\ launcher' = [launcher EXCEPT !.child = "failed", !.events = @ \cup {"error"}]
  /\ UNCHANGED notLauncher

\* process.on('SIGINT' / 'SIGTERM'): server.kill(sig); process.exit(0)
OnSignal(sig) ==
  /\ Alive
  /\ sig \in launcher.events
  /\ launcher' = [launcher EXCEPT !.events = @ \ {sig},
                                  !.killed = IF launcher.child = "running" THEN sig ELSE @,
                                  !.exit = "0",
                                  !.by = sig]
  /\ UNCHANGED notLauncher

\* server.on('exit', code): process.exit(code || 1) unless code is 0
OnExit ==
  /\ Alive
  /\ "exit" \in launcher.events
  /\ launcher' = [launcher EXCEPT
                    !.events = @ \ {"exit"},
                    !.exit = IF launcher.child /= "0" THEN exitStatus(launcher.child) ELSE @,
                    !.by = IF launcher.child /= "0" THEN "exit" ELSE @]
  /\ UNCHANGED notLauncher

\* server.on('error'): process.exit(1)
OnError ==
  /\ Alive
  /\ "error" \in launcher.events
  /\ launcher' = [launcher EXCEPT !.events = @ \ {"error"}, !.exit = "1", !.by = "error"]
  /\ UNCHANGED notLauncher

\* the child has exited with code 0 and no event is left: nothing keeps the
\* event loop of the launcher alive, and node exits with code 0
LoopEmpty ==
  /\ Alive
  /\ launcher.child = "0"
  /\ launcher.events = {}
  /\ launcher' = [launcher EXCEPT !.exit = "0", !.by = "empty"]
  /\ UNCHANGED notLauncher

LauncherOff ==
  launcher = [script |-> "none", child |-> "none", events |-> {}, requested |-> FALSE,
              childAtRequest |-> "none", killed |-> "none", exit |-> "none", by |-> "none"]

\* after spawn(): the child runs and the four handlers are installed
LauncherStart(script) ==
  launcher = [script |-> script, child |-> "running", events |-> {}, requested |-> FALSE,
              childAtRequest |-> "none", killed |-> "none", exit |-> "none", by |-> "none"]

NextLauncher ==
  \/ \E sig \in Signals : OperatorSignal(sig)
  \/ \E code \in ChildCodes : ChildEnds(code)
  \/ ChildFails
  \/ \E sig \in Signals : OnSignal(sig)
  \/ OnExit
  \/ OnError
  \/ LoopEmpty

\* ------------------------------------------------------ runTests
\* the three test clients: stdio (test-client.ts), HTTP streamable
\* (test-client-http.ts) and plain HTTP (test-client-http-simple.ts)
TestClients == {"McpStdioTestClient", "McpHttpTestClient", "McpTestClient"}

\* TEST 1 to TEST 4 of runTests, by the method they request
Tests == <<"initialize", "tools/list", "resources/list", "tools/call">>

\* what the server does with a request: a result, a result holding no page, an
\* error envelope with its code, or nothing the client can read (network
\* failure, HTTP status outside 2xx, unparsable body, 30 s without a reply)
Replies == {"result", "empty", "-32601", "-32603", "none"}

ErrorCodes == {"-32601", "-32603"}

\* what makeRequest gives its caller: the stdio client's handleResponse
\* rejects on an error envelope and its timer rejects after 30 s; the HTTP
\* clients return the envelope and throw only when there is none
makeRequestGives(client, reply) ==
  IF reply = "none" THEN "thrown"
  ELSE IF reply \in ErrorCodes
       THEN IF client = "McpStdioTestClient" THEN "thrown" ELSE "error"
       ELSE "result"

\* (variant) TEST 3 written like TEST 1 and TEST 2: any failure ends the run
afterResourcesFatal(client, given) ==
  IF given = "result" THEN "next" ELSE "fail"

\* TEST 3: the stdio and HTTP streamable clients wrap listResources in a try
\* of its own and only log; the plain client only warns about an error
\* envelope, and a throw reaches the catch of runTests
afterResources(client, given) ==
  IF client = "McpTestClient" /\ given = "thrown" THEN "fail" ELSE "next"

\* the summary line 'List Resources' of the run
resourcesSummary(client, reply) ==
  LET given == makeRequestGives(client, reply) IN
  IF client = "McpTestClient"
  THEN IF given = "error" THEN "Erreur (peut etre normal)" ELSE "OK"
  ELSE IF given = "thrown" \/ reply = "-32601" THEN "Non disponible (normal)"
       ELSE IF given = "error" THEN "Erreur" ELSE "OK"

Running == testRun.exit = "none" /\ testRun.client \in TestClients

At(method) == Running /\ testRun.test <= Len(Tests) /\ Tests[testRun.test] = method

Got(method, reply) ==
  [testRun EXCEPT !.replies = [@ EXCEPT ![method] = reply]]

Fail(run) == [run EXCEPT !.exit = "1", !.failedAt = testRun.test]

\* TEST 1: an error envelope or a throw ends the run with process.exit(1)
TestInitialize(reply) ==
  /\ At("initialize")
  /\ testRun' = IF makeRequestGives(testRun.client, reply) = "result"
                THEN [Got("initialize", reply) EXCEPT !.test = 2]
                ELSE Fail(Got("initialize", reply))
  /\ UNCHANGED notTestRun

\* TEST 2: as TEST 1; the list may or may not hold a search tool
TestListTools(reply, searchTool) ==
  /\ At("tools/list")
  /\ testRun' = IF makeRequestGives(testRun.client, reply) = "result"
                THEN [Got("tools/list", reply) EXCEPT !.test = 3,
                                                      !.searchTool = searchTool]
                ELSE Fail(Got("tools/list", reply))
  /\ UNCHANGED notTestRun

\* TEST 3; TEST 4 is skipped when the tool list holds no search tool
TestListResources(reply) ==
  /\ At("resources/list")
  /\ LET given == makeRequestGives(testRun.client, reply)
         run == [Got("resources/list", reply) EXCEPT
                   !.summary = resourcesSummary(testRun.client, reply)] IN
     testRun' = IF afterResources(testRun.client, given) = "fail"
                THEN Fail(run)
                ELSE [run EXCEPT !.test = IF testRun.searchTool THEN 4 ELSE 5]
  /\ UNCHANGED notTestRun

\* TEST 4: callTool is awaited outside any try of its own; the HTTP streamable
\* client searches once more, with 'test', when the first result holds no page
TestCallTool(reply) ==
  /\ At("tools/call")
  /\ LET given == makeRequestGives(testRun.client, reply)
         run == [Got("tools/call", reply) EXCEPT !.searches = @ + 1] IN
     testRun' = IF given = "thrown" THEN Fail(run)
                ELSE IF /\ testRun.client = "McpHttpTestClient"
                        /\ reply = "empty"
                        /\ testRun.searches = 0
                     THEN run
                     ELSE [run EXCEPT !.test = 5]
  /\ UNCHANGED notTestRun

\* after the summary: shutdown() kills the child with SIGTERM (the plain client
\* has no child); the 'exit' handler of the stdio client ends the process with
\* the child's code unless it is 0 or null; else runTests returns and node
\* exits with code 0
TestShutdown(code) ==
  /\ Running
  /\ testRun.test = 5
  /\ testRun.client /= "McpStdioTestClient" => code = "null"
  /\ testRun' = [testRun EXCEPT !.child = code,
                                !.exit = IF code \in {"0", "null"} THEN "0" ELSE code]
  /\ UNCHANGED notTestRun

NoReplies == [method \in {Tests[i] : i \in 1..Len(Tests)} |-> "no"]

TestRunOff ==
  testRun = [client |-> "none", test |-> 0, replies |-> NoReplies, searchTool |-> FALSE,
             searches |-> 0, summary |-> "none", child |-> "none", failedAt |-> 0,
             exit |-> "none"]

\* runTests() has built its client (and started its server)
TestRunStart(client) ==
  testRun = [client |-> client, test |-> 1, replies |-> NoReplies, searchTool |-> FALSE,
             searches |-> 0, summary |-> "none", child |-> "running", failedAt |-> 0,
             exit |-> "none"]

NextTestRun ==
  \/ \E reply \in Replies : TestInitialize(reply)
  \/ \E reply \in Replies, searchTool \in BOOLEAN : TestListTools(reply, searchTool)
  \/ \E reply \in Replies : TestListResources(reply)
  \/ \E reply \in Replies : TestCallTool(reply)
  \/ \E code \in {"null", "0", "1"} : TestShutdown(code)

\* ------------------------------------------------------ start of a script
\* the scripts of the repository, by what they run
Scripts ==
  {"start-server-official", "start-server-custom", "start-server-custom-lib",
   "McpStdioTestClient", "McpHttpTestClient", "McpTestClient", "runDirectApiTests",
   "demonstrateLLMMcpFlow", "LLMMcpNotionClient", "GenericMcpClient"}

\* the environment variables holding a credential
Credentials ==
  {"NOTION_TOKEN", "NOTION_API_KEY", "AUTH_TOKEN",
   "OPENROUTER_API_KEY", "MISTRAL_API_KEY", "GEMINI_API_KEY"}

Providers == {"mistral", "gemini"}

\* main(): the key read for the selected provider
selectedKey(useOpenRouter, llmProvider) ==
  IF useOpenRouter THEN "OPENROUTER_API_KEY"
  ELSE IF llmProvider = "mistral" THEN "MISTRAL_API_KEY" ELSE "GEMINI_API_KEY"

\* process.env.NOTION_TOKEN || process.env.NOTION_API_KEY
notionToken(env) == env \cap {"NOTION_TOKEN", "NOTION_API_KEY"} /= {}

\* the statements of each script that matter here, in the order it runs them:
\* "notion" is the check of the Notion token (process.exit(1), or a throw that
\* the caller's catch turns into process.exit(1)), "llm-key" the check of the
\* provider's key, "spawn" the start of the child process, "request" the first
\* HTTP request
Statements(script) ==
  CASE script \in {"start-server-official", "start-server-custom"} -> <<"notion", "spawn">>
    [] script = "start-server-custom-lib" -> <<"notion">>
    [] script = "McpStdioTestClient" -> <<"notion", "spawn">>
    [] script = "McpHttpTestClient" -> <<"notion", "spawn", "request">>
    [] script = "McpTestClient" -> <<"request">>
    [] script = "runDirectApiTests" -> <<"notion", "request">>
    [] script = "demonstrateLLMMcpFlow" -> <<"notion", "spawn", "request">>
    [] script = "LLMMcpNotionClient" -> <<"llm-key", "notion", "spawn", "request">>
    [] script = "GenericMcpClient" -> <<"llm-key", "request">>

Starting(statement) ==
  /\ startup.script \in Scripts
  /\ startup.exit = "none"
  /\ startup.pc <= Len(Statements(startup.script))
  /\ Statements(startup.script)[startup.pc] = statement

\* if (!notionToken) process.exit(1)
CheckNotionToken ==
  /\ Starting("notion")
  /\ startup' = IF notionToken(startup.env)
                THEN [startup EXCEPT !.pc = @ + 1]
                ELSE [startup EXCEPT !.exit = "1"]
  /\ UNCHANGED notStartup

\* if (!llmApiKey) process.exit(1)
CheckProviderKey ==
  /\ Starting("llm-key")
  /\ startup' = IF selectedKey(startup.useOpenRouter, startup.llmProvider) \in startup.env
                THEN [startup EXCEPT !.pc = @ + 1]
                ELSE [startup EXCEPT !.exit = "1"]
  /\ UNCHANGED notStartup

\* spawn('npx', ...)
SpawnServer ==
  /\ Starting("spawn")
  /\ startup' = [startup EXCEPT !.pc = @ + 1, !.spawned = TRUE]
  /\ UNCHANGED notStartup

\* the first fetch() of the script; the plain test client sends it with no
\* Authorization header when AUTH_TOKEN is not set
FirstRequest ==
  /\ Starting("request")
  /\ startup' = [startup EXCEPT !.pc = @ + 1, !.sent = TRUE]
  /\ UNCHANGED notStartup

StartupOff ==
  startup = [script |-> "none", env |-> {}, useOpenRouter |-> FALSE,
             llmProvider |-> "mistral", pc |-> 0, spawned |-> FALSE, sent |-> FALSE,
             exit |-> "none"]

\* the script starts in some environment
ScriptStart(script, env, useOpenRouter, llmProvider) ==
  startup = [script |-> script, env |-> env, useOpenRouter |-> useOpenRouter,
             llmProvider |-> llmProvider, pc |-> 1, spawned |-> FALSE, sent |-> FALSE,
             exit |-> "none"]

NextStartup ==
  \/ CheckNotionToken
  \/ CheckProviderKey
  \/ SpawnServer
  \/ FirstRequest

\* ------------------------------------------------------ printed lines
\* the scripts whose output is followed here
Printers == {"start-server-official", "McpHttpTestClient", "GenericMcpClient"}

\* a token is a sequence of characters; its characters are told apart by the
\* token they belong to and their place in it
Token(kind, n) == [i \in 1..n |-> <<kind, i>>]

TokenLengths == (MaxTokenLen - 3)..MaxTokenLen

\* String.prototype.substring(start, end)
substring(str, start, end) ==
  SubSeq(str, start + 1, IF end < Len(str) THEN end ELSE Len(str))

\* a printed line: the text around, and the characters of a token it shows
Line(text, shown) == [text |-> text, shown |-> shown]

\* the lines the server may write on its stdout: some show its auth token
ServerTexts ==
  {"Generated auth token:", "Use this token", "Authentication:", "listening", "other"}

\* stdout 'data' handler of McpHttpTestClient.startServer: which lines of the
\* server are printed again, whole
echoed(line) ==
  IF line.text = "Generated auth token:"
  THEN line.shown /= <<>>      \* /Generated auth token:\s*([a-f0-9]+)/i matches
  ELSE line.text \in {"Use this token", "Authentication:", "listening"}

Say(lines) == console' = [console EXCEPT !.printed = @ \cup lines]

\* the start-up log: the Notion token and the auth token, cut to 10 characters;
\* the launcher and the generic client print the auth token only when it is set
LogTokens ==
  /\ console.script \in Printers
  /\ ~console.logged
  /\ console' = [console EXCEPT
       !.logged = TRUE,
       !.printed = @ \cup
         (IF console.script = "GenericMcpClient" THEN {}
          ELSE {Line("Token Notion:", substring(console.notionToken, 0, 10))})
         \cup
         (IF console.authToken = <<>> THEN {}
          ELSE {Line("Auth Token:", substring(console.authToken, 0, 10))})]
  /\ UNCHANGED notConsole

\* McpHttpTestClient.makeRequest: the header log
LogHeaders ==
  /\ console.script = "McpHttpTestClient"
  /\ console.logged
  /\ Say({Line("Headers: Authorization=Bearer", substring(console.authToken, 0, 10))})
  /\ UNCHANGED notConsole

\* the server of McpHttpTestClient writes a line on its stdout
ServerStdout(text, withToken) ==
  /\ console.script = "McpHttpTestClient"
  /\ console.logged
  /\ LET line == Line(text, IF withToken THEN console.serverToken ELSE <<>>) IN
     Say(IF echoed(line) THEN {line} ELSE {})
  /\ UNCHANGED notConsole

ConsoleOff ==
  console = [script |-> "none", notionToken |-> <<>>, authToken |-> <<>>,
             serverToken |-> <<>>, logged |-> FALSE, printed |-> {}]

\* authLen = 0: AUTH_TOKEN is not set; the HTTP test client then makes one up
\* (randomUUID) and hands it to the server, which generates its own when it is
\* handed none
ConsoleStart(script, authLen) ==
  LET authToken == IF authLen > 0 THEN Token("auth", authLen)
                   ELSE IF script = "McpHttpTestClient" THEN Token("auth", MaxTokenLen)
                        ELSE <<>> IN
  console = [script |-> script,
             notionToken |-> Token("notion", MaxTokenLen),
             authToken |-> authToken,
             serverToken |-> IF authToken = <<>> THEN Token("generated", MaxTokenLen)
                             ELSE authToken,
             logged |-> FALSE,
             printed |-> {}]

NextConsole ==
  \/ LogTokens
  \/ LogHeaders
  \/ \E text \in ServerTexts, withToken \in BOOLEAN : ServerStdout(text, withToken)

\* ------------------------------------------------------ event-stream bodies
\* the lines of a text/event-stream body, as makeRequest tells them apart: the
\* text before the payload and the payload.  "{1}", "{2}", "{3}" are JSON
\* texts of envelopes, "null" is the JSON text of null, "x" is not JSON
SseLines ==
  {<<"data: ", "{1}">>, <<"data: ", "{2}">>, <<"data: ", "x">>, <<"data: ", "null">>,
   <<"data:", "{1}">>, <<"", "{3}">>, <<"event: ", "message">>, <<":", "ping">>,
   <<"", "">>}

SseBodies == UNION {[1..n -> SseLines] : n \in 0..MaxSseLines}

\* JSON.parse of a text: the value, or a throw
JSONparseText(text) ==
  IF text \in {"{1}", "{2}", "{3}"} THEN [ok |-> TRUE, value |-> text]
  ELSE IF text = "null" THEN [ok |-> TRUE, value |-> "null"]
  ELSE [ok |-> FALSE, value |-> "none"]

\* what one turn of the for loop hands JSON.parse ("skip": nothing):
\* line.substring(6) of a line that starts with 'data: ', the whole line if it
\* is not blank and does not start with ':'
parsedText(line) ==
  IF line[1] = "data: " THEN line[2]
  ELSE IF line[1] = ":" \/ (line[1] = "" /\ line[2] = "") THEN "skip"
  ELSE IF line[1] = "" THEN line[2]
  ELSE "not json"      \* 'data:{1}', 'event: message': the line as a whole

RECURSIVE firstParsed(_)
\* the for loop over the lines: data is the value of the first JSON.parse that
\* does not throw
firstParsed(lines) ==
  IF lines = <<>> THEN [found |-> FALSE, value |-> "none"]
  ELSE LET text == parsedText(Head(lines)) IN
       IF text /= "skip" /\ JSONparseText(text).ok
         THEN [found |-> TRUE, value |-> JSONparseText(text).value]
         ELSE firstParsed(Tail(lines))

\* if (!data) throw new Error('Impossible de parser la réponse SSE'): data is
\* undefined when nothing parsed, and null is falsy as well
parseSse(lines) ==
  LET data == firstParsed(lines) IN
  IF ~data.found \/ data.value = "null"
    THEN [kind |-> "thrown", envelope |-> "none"]
    ELSE [kind |-> "returned", envelope |-> data.value]

\* makeRequest on a 2xx response whose content type is text/event-stream
SseResponse ==
  /\ sse.out.kind = "pending"
  /\ sse.client \in {"McpNotionClient", "McpHttpTestClient"}
  /\ sse' = [sse EXCEPT !.out = parseSse(sse.body)]
  /\ UNCHANGED notSse

SseOff ==
  sse = [client |-> "none", body |-> <<>>, out |-> [kind |-> "none", envelope |-> "none"]]

SseStart(client, body) ==
  sse = [client |-> client, body |-> body,
         out |-> [kind |-> "pending", envelope |-> "none"]]

NextSse == SseResponse

\* ------------------------------------------------- tool results to entries
\* the three processQuery: src/src/llm-mcp-client.ts, the newer LLM client of
\* src/unnamed/part_001, src/src/generic-mcp-client.ts
ExtractClients == {"LLMMcpNotionClient", "LLMMcpNotionClient (part_001)", "GenericMcpClient"}

\* (variant) every client cuts at 50000
maxLengthNewer(client) == 50000

\* the argument of resultContent.substring(0, ...)
maxLength(client) == IF client = "LLMMcpNotionClient" THEN 4000 ELSE 50000

\* a text is known by where it comes from and by its length
Text(of, len) == [of |-> of, len |-> len]

NoText == Text("''", 0)

\* lengths of texts a server sends: none, short, beyond the first limit,
\* beyond the second
Lengths == {0, 100, 4001, 50001}

\* lengths of the reason phrase of a status line: none (HTTP/2), 'Internal
\* Server Error', one beyond the first limit
StatusTexts == {0, 21, 4001}

\* the length of `Erreur MCP: HTTP ${response.status}: ${response.statusText}`
\* followed, if the body is not empty, by ` - ${errorText.substring(0, 200)}`
httpErrorMessage(statusText, errorText) ==
  12 + 10 + statusText +
  (IF errorText = 0 THEN 0 ELSE 3 + (IF errorText <= 200 THEN errorText ELSE 200))

\* a content block: { type, text? }; len 0 is a missing or empty text
Blocks == [type : {"text", "image"}, len : Lengths]

ContentLists == UNION {[1..n -> Blocks] : n \in 0..MaxBlocks}

\* what mcpClient.callTool gave:
\*   "content": a result with a content list
\*   "object":  a result object without content, len the length of its JSON
\*   "none":    no result (or a falsy one)
\*   "error":   an envelope with an error member, len the length of its message
\*              (LLM clients; the SDK of the generic client throws instead)
\*   "thrown":  callTool threw, len the length of error.message: the message
\*              of makeRequest in the LLM clients, the message of the SDK's
\*              error, which carries the server's, in the generic client
ToolResults(client) ==
       [kind : {"content"}, content : ContentLists, len : {0}]
  \cup [kind : {"object"}, content : {<<>>}, len : Lengths \ {0}]
  \cup [kind : {"none"}, content : {<<>>}, len : {0}]
  \cup (IF client = "GenericMcpClient" THEN {}
        ELSE [kind : {"error"}, content : ContentLists, len : Lengths])
  \cup [kind : {"thrown"}, content : {<<>>},
        len : IF client = "GenericMcpClient" THEN Lengths \ {0}
              ELSE {httpErrorMessage(statusText, errorText) :
                      statusText \in StatusTexts, errorText \in Lengths}]

\* str.substring(0, n)
truncate(text, n) == Text(text.of, IF text.len <= n THEN text.len ELSE n)

\* `Erreur: ${message}`
Erreur(len) == Text("Erreur", 8 + len)

\* resultContent of the LLM clients
resultContentLLM(toolResult) ==
  LET content == toolResult.content
      extracted ==
        IF toolResult.kind \in {"content", "error"}
          THEN IF Len(content) > 0 /\ content[1].type = "text" /\ content[1].len > 0
                 THEN Text("block 1", content[1].len)
                 ELSE NoText
          ELSE IF toolResult.kind = "object"
                 THEN Text("JSON of result", toolResult.len)
                 ELSE NoText
  IN IF toolResult.kind = "error" THEN Erreur(toolResult.len) ELSE extracted

RECURSIVE textLength(_)
\* the characters of the texts of a content list
textLength(content) ==
  IF content = <<>> THEN 0 ELSE Head(content).len + textLength(Tail(content))

\* resultContent of the generic client
resultContentGeneric(toolResult) ==
  LET content == toolResult.content IN
  IF toolResult.kind = "content"
    THEN IF Len(content) > 0
           THEN IF content[1].type = "text" /\ content[1].len > 0
                  THEN Text("block 1", content[1].len)
                  ELSE Text("JSON of content", 2 + textLength(content))
           ELSE NoText
    ELSE IF toolResult.kind = "object"
           THEN Text("JSON of result", toolResult.len)
           ELSE NoText

extractedText(client, toolResult) ==
  IF client = "GenericMcpClient" THEN resultContentGeneric(toolResult)
  ELSE resultContentLLM(toolResult)

\* the content of the entry pushed for one invocation: in the try, the
\* extracted text cut to the client's length; in the catch, the marker as is
toolEntryContent(client, toolResult) ==
  IF toolResult.kind = "thrown"
    THEN Erreur(toolResult.len)
    ELSE truncate(extractedText(client, toolResult), maxLength(client))

\* one turn of the for loop of processQuery, from the outcome of callTool on
PushToolEntry ==
  /\ extract.entry.of = "pending"
  /\ extract.client \in ExtractClients
  /\ extract' = [extract EXCEPT !.entry = toolEntryContent(extract.client, extract.toolResult)]
  /\ UNCHANGED notExtract

ExtractOff ==
  extract = [client |-> "none",
             toolResult |-> [kind |-> "none", content |-> <<>>, len |-> 0],
             entry |-> Text("none", 0)]

ExtractStart(client, toolResult) ==
  extract = [client |-> client, toolResult |-> toolResult,
             entry |-> Text("pending", 0)]

NextExtract == PushToolEntry

\* ------------------------------------------------------------ LLMClient.chat
\* this.tools after tools/list: the names of the catalog
Catalogs == {<<>>, <<"API-post-search">>, <<"API-post-search", "API-get-self">>}

RECURSIVE filterMessages(_, _)
\* messages.filter(m => m.role !== 'system' || keepSystem)
filterMessages(messages, keepSystem) ==
  IF messages = <<>> THEN <<>>
  ELSE IF Head(messages).role /= "system" \/ keepSystem
         THEN <<Head(messages)>> \o filterMessages(Tail(messages), keepSystem)
         ELSE filterMessages(Tail(messages), keepSystem)

\* the contents of the Gemini format: { role, parts: [{ text }] }, nothing else
\* of the message is copied
geminiContents(messages) ==
  [i \in 1..Len(messages) |->
     Entry(IF messages[i].role = "assistant" THEN "model" ELSE "user",
           messages[i].content, <<>>, 0)]

\* the body chat() posts: the messages and the names of data.tools
chatRequest(provider, useOpenRouter, messages, tools) ==
  IF provider = "gemini" /\ ~useOpenRouter
    THEN [messages |-> geminiContents(filterMessages(messages, FALSE)), tools |-> <<>>]
    ELSE [messages |-> filterMessages(messages, useOpenRouter), tools |-> tools]

NoChatRequest == [messages |-> <<>>, tools |-> <<>>]

\* processQuery: await this.llmClient.chat(this.conversationHistory, enhancedTools)
ChatCall ==
  /\ chat.pc = "call"
  /\ chat' = [chat EXCEPT !.pc = "awaitModel",
                          !.request = chatRequest(chat.provider, chat.useOpenRouter,
                                                  chat.messages, chat.tools)]
  /\ UNCHANGED notChat

\* the reply asks for a tool: the assistant message and the tool entry are
\* pushed and the loop calls the model again
ChatToolRound ==
  /\ chat.pc = "awaitModel"
  /\ Len(chat.messages) + 2 <= MaxMessages
  /\ chat' = [chat EXCEPT
       !.pc = "call",
       !.messages = @ \o <<Entry("assistant", "", ToolCallsOf(<<"object">>), 0),
                           Entry("tool", "text", <<>>, 1)>>]
  /\ UNCHANGED notChat

\* the reply is the answer: it is pushed and returned; the next processQuery
\* pushes its question
ChatNextQuestion ==
  /\ chat.pc = "awaitModel"
  /\ Len(chat.messages) + 2 <= MaxMessages
  /\ chat' = [chat EXCEPT
       !.pc = "call",
       !.messages = pushQuestion(Append(@, Entry("assistant", "answer", <<>>, 0)))]
  /\ UNCHANGED notChat

ChatOff ==
  chat = [provider |-> "none", useOpenRouter |-> FALSE, messages |-> <<>>,
          tools |-> <<>>, pc |-> "off", request |-> NoChatRequest]

\* the constructor's system message, the catalog of initialize(), the first
\* question
ChatStart(provider, useOpenRouter, tools) ==
  chat = [provider |-> provider, useOpenRouter |-> useOpenRouter,
          messages |-> pushQuestion(<<Entry("system", "prompt", <<>>, 0)>>),
          tools |-> tools, pc |-> "call", request |-> NoChatRequest]

NextChat == ChatCall \/ ChatToolRound \/ ChatNextQuestion

FunsOff == SseOff /\ ExtractOff /\ ChatOff

\* the state of the components a specification does not run
ScriptsOff == LauncherOff /\ TestRunOff /\ StartupOff /\ ConsoleOff /\ FunsOff

ClientsOff ==
  /\ StdioStart
  /\ HttpStart("McpHttpTestClient")
  /\ LoopStart("LLMMcpNotionClient")
  /\ WireStart(<<>>)

\* ------------------------------------------------------ specifications
InitLauncher ==
  /\ ClientsOff
  /\ \E script \in Launchers : LauncherStart(script)
  /\ TestRunOff
  /\ StartupOff
  /\ ConsoleOff
  /\ FunsOff

InitTestRun ==
  /\ ClientsOff
  /\ LauncherOff
  /\ \E client \in TestClients : TestRunStart(client)
  /\ StartupOff
  /\ ConsoleOff
  /\ FunsOff

SpecTestRun == InitTestRun /\ [][NextTestRun]_vars

InitStartup ==
  /\ ClientsOff
  /\ LauncherOff
  /\ TestRunOff
  /\ ConsoleOff
  /\ FunsOff
  /\ \E script \in Scripts, env \in SUBSET Credentials,
        useOpenRouter \in BOOLEAN, llmProvider \in Providers :
       ScriptStart(script, env, useOpenRouter, llmProvider)

SpecStartup == InitStartup /\ [][NextStartup]_vars

InitConsole ==
  /\ ClientsOff
  /\ LauncherOff
  /\ TestRunOff
  /\ StartupOff
  /\ FunsOff
  /\ \E script \in Printers, authLen \in {0} \cup TokenLengths :
       ConsoleStart(script, authLen)

SpecConsole == InitConsole /\ [][NextConsole]_vars

AllOff == ClientsOff /\ LauncherOff /\ TestRunOff /\ StartupOff /\ ConsoleOff

InitSse ==
  /\ AllOff
  /\ ExtractOff
  /\ ChatOff
  /\ \E client \in {"McpNotionClient", "McpHttpTestClient"}, body \in SseBodies :
       SseStart(client, body)

SpecSse == InitSse /\ [][NextSse]_vars

InitExtract ==
  /\ AllOff
  /\ SseOff
  /\ ChatOff
  /\ \E client \in ExtractClients : \E toolResult \in ToolResults(client) :
       ExtractStart(client, toolResult)

SpecExtract == InitExtract /\ [][NextExtract]_vars

InitChat ==
  /\ AllOff
  /\ SseOff
  /\ ExtractOff
  /\ \E provider \in Providers, useOpenRouter \in BOOLEAN, tools \in Catalogs :
       ChatStart(provider, useOpenRouter, tools)

SpecChat == InitChat /\ [][NextChat]_vars

SpecLauncher == InitLauncher /\ [][NextLauncher]_vars

InitStdio ==
  /\ StdioStart
  /\ HttpStart("McpHttpTestClient")
  /\ LoopStart("LLMMcpNotionClient")
  /\ WireStart(<<>>)
  /\ ScriptsOff

InitWire ==
  /\ TwoPending
  /\ HttpStart("McpHttpTestClient")
  /\ LoopStart("LLMMcpNotionClient")
  /\ \E stream \in Streams : WireStart(stream)
  /\ ScriptsOff

InitHttp ==
  /\ StdioStart
  /\ \E client \in HttpClients : HttpStart(client)
  /\ LoopStart("LLMMcpNotionClient")
  /\ WireStart(<<>>)
  /\ ScriptsOff

InitLoop ==
  /\ StdioStart
  /\ HttpStart("McpNotionClient")
  /\ \E client \in LoopClients : LoopStart(client)
  /\ WireStart(<<>>)
  /\ ScriptsOff

SpecStdio == InitStdio /\ [][NextStdio]_vars

SpecHttp == InitHttp /\ [][NextHttp]_vars

\* the client takes the steps it can take; whether and when the server
\* answers is up to the server and the network
SpecHttpFair ==
  /\ InitHttp
  /\ [][NextHttp]_vars
  /\ WF_vars(\E method \in Methods : HttpSend(method))

SpecLoop == InitLoop /\ [][NextLoop]_vars

SpecWire == InitWire /\ [][NextWire]_vars

\* ====================================================================
\* Claims
\* ====================================================================
Sent == 1..Len(calls)

Occurrences(seq, x) == Cardinality({i \in 1..Len(seq) : seq[i] = x})

\* C1: a call is resolved or rejected by a reply only if the reply's id is the
\* id the call was given when it was sent, whatever the order of the replies,
\* and no two calls that are pending at the same time have the same id.
C1_RepliesMatchedById ==
  /\ \A c \in Sent :
       calls[c].outcome \in {"resolved", "rejected"} => calls[c].settledBy = calls[c].id
  /\ \A c1, c2 \in Sent :
       (c1 /= c2 /\ calls[c1].outcome = "pending" /\ calls[c2].outcome = "pending")
         => calls[c1].id /= calls[c2].id

\* the second call is answered while the first, sent earlier, is still pending
C1_Witness ==
  /\ Len(calls) >= 2
  /\ calls[1].outcome = "pending"
  /\ calls[2].outcome \in {"resolved", "rejected"}
  /\ calls[2].settledBy = 2

\* C2: a reply whose id has no pending call (the call timed out, or the id was
\* not issued) settles no caller and leaves pendingRequests unchanged; the
\* handler raises nothing, so the client keeps running.
C2_UnknownReplyDiscarded ==
  \A i \in 1..Len(lastData) :
    ~lastData[i].known => (lastData[i].same /\ proc = "running")

\* a reply handled after its call had timed out
C2_Witness ==
  \E i \in 1..Len(lastData) :
    /\ ~lastData[i].known
    /\ \E c \in Sent : calls[c].id = lastData[i].id /\ calls[c].outcome = "timeout"

\* C9: once the 30 s timer of a call has fired the call is no longer pending and
\* has no entry in pendingRequests: a call that no reply answered in time is
\* rejected with the timeout error by the timer itself (and only by it); the
\* request of every call is written to the server exactly once (no retry).
C9_TimeoutRejectsOnce ==
  \A c \in Sent :
    /\ calls[c].timer = "fired"
         => (calls[c].outcome /= "pending" /\ calls[c].id \notin DOMAIN pendingRequests)
    /\ calls[c].outcome = "timeout" => calls[c].timer = "fired"
    /\ Occurrences(stdin, calls[c].id) = 1

\* a call that timed out
C9_Witness ==
  \E c \in Sent : calls[c].outcome = "timeout" /\ calls[c].timer = "fired"

\* C10: once the child has exited, every call that was sent to it while it ran
\* has been rejected (with a transport-closed error) and none is left pending.
C10_PendingRejectedOnExit ==
  (server = "exited" /\ proc = "running")
    => \A c \in Sent : calls[c].sentTo = "running" => calls[c].outcome /= "pending"

\* C3: every initialize request, whichever HTTP client sends it, carries no
\* mcp-session-id header.
C3_InitializeWithoutSession ==
  hLast.method = "initialize" => hLast.header = "none"

HandshakeClients == {"McpHttpTestClient", "McpNotionClient"}

IterationLimit == "Nombre maximum d'itérations atteint"

Finished == pc \in {"done", "failed"}

\* a measure of what is left of the query: whole iterations, then the steps
\* of the turn in hand (two per invocation: callTool and callToolDirect)
StepsPerIteration == 2 * MaxToolCalls + 1

Rank ==
  IF pc \in {"idle", "done", "failed"} THEN 0
  ELSE (maxIterations(qClient) - iteration) * StepsPerIteration
       + (IF pc = "awaitModel" THEN StepsPerIteration
          ELSE IF pc = "awaitTool" THEN 2 * (Len(turn.calls) - turn.k) + 2
          ELSE 2 * (Len(turn.calls) - turn.k) + 1)

\* C5: processQuery never makes more than maxIterations model calls (5 in
\* LLMMcpNotionClient, 10 in GenericMcpClient); it fails with the
\* iteration-limit error only after exactly maxIterations model calls that all
\* returned a reply with tool invocations; a query all of whose replies held
\* tool invocations ends in no other way; and every step of a running query
\* strictly decreases a non-negative measure, so the query ends as long as the
\* external calls return.
C5_ExhaustsAtCeiling ==
  /\ [](/\ modelCalls <= (IF qClient = "GenericMcpClient" THEN 10 ELSE 5)
        /\ Rank >= 0
        /\ (pc = "failed" /\ qResult.value = IterationLimit)
             => (/\ modelCalls = (IF qClient = "GenericMcpClient" THEN 10 ELSE 5)
                 /\ qStats.replies = modelCalls
                 /\ qStats.allTools)
        /\ (Finished /\ qStats.allTools)
             => (/\ pc = "failed"
                 /\ qResult = [kind |-> "thrown", value |-> IterationLimit]
                 /\ modelCalls = (IF qClient = "GenericMcpClient" THEN 10 ELSE 5)))
  /\ [][(pc \in {"awaitModel", "awaitTool", "awaitDirect"}) => (Rank' < Rank)]_vars

\* GenericMcpClient gives up after ten replies that all asked for a tool
C5_Witness ==
  /\ qClient = "GenericMcpClient"
  /\ pc = "failed"
  /\ qResult.value = IterationLimit
  /\ modelCalls = 10
  /\ qStats.allTools

\* the entries appended since the last assistant message that requested tools
TurnEntries ==
  LET n == Len(conversationHistory)
      a == CHOOSE i \in 1..n :
             /\ conversationHistory[i].tool_calls /= <<>>
             /\ \A j \in (i + 1)..n : conversationHistory[j].tool_calls = <<>>
  IN SubSeq(conversationHistory, a + 1, n)

\* C6: when the model is called again after a reply that requested N >= 1
\* invocations, each of the N invocations has been sent to the MCP server and
\* exactly N tool entries, one per invocation and in the order of the reply,
\* have been appended after the assistant message.
C6_AllInvocationsExecuted ==
  (pc = "awaitModel" /\ Len(turn.calls) >= 1) =>
     /\ Len(turnLog) = Len(turn.calls)
     /\ \A k \in 1..Len(turnLog) : turnLog[k].requests >= 1
     /\ Len(TurnEntries) = Len(turn.calls)
     /\ \A k \in 1..Len(TurnEntries) :
          /\ TurnEntries[k].role = "tool"
          /\ TurnEntries[k].tool_call_id = turn.calls[k].id

\* C7 (as written): a first reply without tool invocations ends the query
\* successfully after one model call and no tool call, and the value returned
\* is the text of that reply.
C7_ReturnsReplyText ==
  (qStats.replies >= 1 /\ qStats.first.n = 0) =>
     /\ pc = "done"
     /\ modelCalls = 1
     /\ qStats.toolRequests = 0
     /\ qResult = [kind |-> "returned", value |-> qStats.first.content]

\* C7 (amended): a first reply without tool invocations ends the query
\* successfully after one model call and no tool call, and the value returned
\* is the text of that reply, or 'Aucune réponse générée' when the reply has no
\* text.
C7_ReturnsReplyTextOrPlaceholder ==
  (qStats.replies >= 1 /\ qStats.first.n = 0) =>
     /\ pc = "done"
     /\ modelCalls = 1
     /\ qStats.toolRequests = 0
     /\ qResult = [kind |-> "returned",
                   value |-> IF qStats.first.content = ""
                               THEN "Aucune réponse générée"
                               ELSE qStats.first.content]
     /\ conversationHistory[Len(conversationHistory)]
          = Entry("assistant", qStats.first.content, <<>>, 0)

\* the first reply is an answer with a text
C7_Witness ==
  /\ pc = "done"
  /\ qStats.replies = 1
  /\ qStats.first = [n |-> 0, content |-> "answer"]
  /\ qResult.value = "answer"
  /\ modelCalls = 1

\* C8: an invocation whose arguments are not valid JSON is still sent to the
\* MCP server, with an empty argument object.
C8_MalformedArgumentsStillCalled ==
  \A k \in 1..Len(turnLog) :
    turnLog[k].args = "malformed" =>
      (turnLog[k].requests >= 1 /\ turnLog[k].sent = "empty")

\* the outcomes of callTool that are failures of the invocation
FailureOutcomes == {"error", "throw", "throw400"}

TurnOver ==
  \/ pc = "awaitModel" /\ Len(turn.calls) >= 1
  \/ pc = "failed" /\ qResult.value = IterationLimit

\* C12: a failure of one tool invocation (the call throws, or the server
\* answers with an error) never ends processQuery: the invocation gets a tool
\* entry that carries its tool_call_id and an error text, the query fails only
\* for the model's sake or at the iteration limit, and when the turn is over
\* every invocation of the reply has its entry, in order.
C12_ToolFailureBecomesEntry ==
  /\ \A k \in 1..Len(turnLog) :
       (turnLog[k].outcome \in FailureOutcomes /\ turnLog[k].entry /= "none") =>
          /\ k <= Len(TurnEntries)
          /\ TurnEntries[k].role = "tool"
          /\ TurnEntries[k].tool_call_id = turn.calls[k].id
          /\ \/ TurnEntries[k].content \in {"Erreur: thrown", "Erreur: remote"}
             \/ turnLog[k].requests = 2
  /\ pc = "failed" =>
       qResult.value \in {IterationLimit, "Erreur LLM", "Aucune réponse du LLM"}
  /\ TurnOver =>
       /\ Len(TurnEntries) = Len(turn.calls)
       /\ \A k \in 1..Len(turn.calls) :
            TurnEntries[k].role = "tool" /\ TurnEntries[k].tool_call_id = turn.calls[k].id

\* the first invocation of a reply threw, the second was answered, and the
\* model has been called again
C12_Witness ==
  /\ pc = "awaitModel"
  /\ Len(turnLog) = 2
  /\ turnLog[1].outcome = "throw" /\ turnLog[1].entry = "error"
  /\ turnLog[2].outcome = "text" /\ turnLog[2].entry = "result"

\* C14 (as written): at most one tools/call request is issued for an invocation.
C14_AtMostOneRequest ==
  \A k \in 1..Len(turnLog) : turnLog[k].requests <= 1

\* C14 (amended): at most one tools/call request is issued for an invocation,
\* except that GenericMcpClient, when callTool fails with an error whose message
\* holds "400" for an invocation without arguments, issues one more request
\* through callToolDirect; LLMMcpNotionClient never issues a second one.
C14_OneRequestUnlessDirectCall ==
  \A k \in 1..Len(turnLog) :
    /\ turnLog[k].requests <= 2
    /\ turnLog[k].requests = 2 =>
         /\ qClient = "GenericMcpClient"
         /\ turnLog[k].outcome = "throw400"
         /\ turnLog[k].sent = "empty"
    /\ (turnLog[k].outcome \in FailureOutcomes /\ turnLog[k].requests = 1
          /\ turnLog[k].entry /= "none")
         => turnLog[k].entry = IF turnLog[k].outcome = "error" THEN "result" ELSE "error"

\* a call that threw was not sent again: its invocation has one request and
\* the error entry
C14_Witness ==
  \E k \in 1..Len(turnLog) :
    /\ turnLog[k].outcome = "throw"
    /\ turnLog[k].requests = 1
    /\ turnLog[k].entry = "error"

\* C13: after processQuery has failed with the iteration-limit error the
\* process has not exited, and the only things that happen next are the user's:
\* quitting (exit code 0), or a new question, which is processed from
\* iteration 1 with its first model call, on the transcript of the failed query
\* plus the new question, and without touching the MCP session.
C13_SessionUsableAfterExhaustion ==
  /\ []((pc = "failed" /\ qResult.value = IterationLimit) => mainExit \in {"none", "0"})
  /\ [][(pc = "failed" /\ qResult.value = IterationLimit) =>
          \/ /\ mainExit' = "0"
             /\ mainExit = "none"
             /\ UNCHANGED <<pc, conversationHistory, httpVars>>
          \/ /\ mainExit' = "none"
             /\ pc' = "awaitModel"
             /\ iteration' = 1
             /\ modelCalls' = 1
             /\ Len(conversationHistory') = Len(conversationHistory) + 1
             /\ SubSeq(conversationHistory', 1, Len(conversationHistory)) = conversationHistory
             /\ conversationHistory'[Len(conversationHistory')].role = "user"
             /\ UNCHANGED httpVars]_vars

\* the assistant messages of the transcript that request tools
ToolTurns == {i \in 1..Len(conversationHistory) : conversationHistory[i].tool_calls /= <<>>}

\* LLMMcpNotionClient waits for the first reply to a second question, the
\* first question having used up its five iterations
C13_Witness ==
  /\ qClient = "LLMMcpNotionClient"
  /\ qStats.queries = 2
  /\ pc = "awaitModel"
  /\ iteration = 1
  /\ Cardinality(ToolTurns) = 5
  /\ \A i \in 1..Len(conversationHistory) :
       conversationHistory[i].role = "assistant" => i \in ToolTurns

\* ---- the byte stream of the server's stdout
\* what the handler does with the whole stream delivered as one chunk
WholeStream ==
  processBuffer(toString(wireAll),
                [pending |-> <<1, 2>>,
                 calls |-> [c \in 1..2 |-> [id |-> c, outcome |-> "pending",
                                            settledBy |-> 0, timer |-> "armed",
                                            sentTo |-> "running"]]])

\* C19: once every byte of the stream has been delivered, the replies handled
\* (ids and contents, in order), the promises settled and the buffer left over
\* are those of the stream delivered as one chunk, however it was cut.
C19_ChunkingIndependent ==
  wire = <<>> =>
    /\ handled = WholeStream.ev
    /\ buffer = WholeStream.buffer
    /\ pendingRequests = WholeStream.st.pending
    /\ calls = WholeStream.st.calls

WellFormed(line) == line /= <<>> /\ JSONparse(line).ok

\* the complete lines a data event finds: those of the buffer followed by the
\* decoded chunk, the piece after the last newline left out
CompleteLines(buf, chunk) ==
  LET lines == Split(buf \o toString(chunk)) IN SubSeq(lines, 1, Len(lines) - 1)

\* C20: in every data event the lines that are not valid JSON are dropped: the
\* client keeps running, the replies handled are exactly the well-formed
\* complete lines, in order, whatever malformed lines stand between them, and
\* pendingRequests loses the ids of those replies and nothing else.
C20_MalformedLinesSkipped ==
  [][wire' /= wire =>
       LET chunk == SubSeq(wire, 1, Len(wire) - Len(wire'))
           good  == SelectSeq(CompleteLines(buffer, chunk), WellFormed)
       IN /\ proc' = "running"
          /\ Len(lastData') = Len(good)
          /\ \A i \in 1..Len(good) : lastData'[i].id = JSONparse(good[i]).id
          /\ DOMAIN pendingRequests' =
               DOMAIN pendingRequests \ {JSONparse(good[i]).id : i \in 1..Len(good)}
          /\ good = <<>> => (pendingRequests' = pendingRequests /\ calls' = calls)]_vars

\* one data event has handled reply 1, dropped the line "x" and handled reply 2
C20_Witness ==
  /\ wireAll = <<"1", "n", "x", "n", "2", "n">>
  /\ wire = <<>>
  /\ Len(lastData) = 2
  /\ handled = lastData
  /\ lastData[1].id = 1 /\ lastData[2].id = 2
  /\ pendingRequests = <<>>
  /\ proc = "running"

\* C18: a request sent by makeRequest does not stay outstanding forever: even
\* when no response comes, the call ends.
C18_RequestEnds == hInflight ~> ~hInflight

\* ---- server launchers
Abnormal == launcher.child \in {"1", "2", "null"}

\* C16: whichever of the pending events the launcher handles first, a launcher
\* that exits in its SIGINT or SIGTERM handler exits with code 0; a launcher
\* that exits in its 'exit' handler does so because the child ended with a
\* non-zero code or was killed by a signal, and exits with that code (1 for a
\* signal); when the child has ended abnormally and the operator has sent no
\* signal the launcher cannot exit with 0, and the 'exit' event stays pending
\* until it is handled.
C16_LauncherExitCodes ==
  /\ launcher.by \in Signals => launcher.exit = "0"
  /\ launcher.by = "exit" =>
       /\ Abnormal
       /\ launcher.exit = (IF launcher.child = "null" THEN "1" ELSE launcher.child)
       /\ launcher.exit /= "0"
  /\ (Abnormal /\ ~launcher.requested /\ launcher.exit /= "none") => launcher.exit /= "0"
  /\ (Abnormal /\ Alive) => "exit" \in launcher.events
  /\ launcher.exit = "0" => launcher.by \in Signals \cup {"empty"}

\* the child was killed by a signal and the operator pressed Ctrl+C: both
\* events were pending, the SIGINT handler ran first
C16_Witness ==
  /\ launcher.script \in Launchers
  /\ launcher.child = "null"
  /\ "exit" \in launcher.events
  /\ launcher.by = "SIGINT"
  /\ launcher.exit = "0"

\* ---- runTests
\* C11: in each of the three test clients, once resources/list was answered by
\* an error envelope with code -32601 the run is at TEST 4 or beyond; it has
\* not failed at TEST 3; if it ended with a non-zero code this is the doing of
\* TEST 4 (callTool threw) or of the child's exit code, and otherwise it ends
\* with code 0.
C11_MethodNotFoundIsNotFatal ==
  testRun.replies["resources/list"] = "-32601" =>
    /\ testRun.test >= 4
    /\ testRun.failedAt /= 3
    /\ testRun.failedAt = 4 =>
         makeRequestGives(testRun.client, testRun.replies["tools/call"]) = "thrown"
    /\ (testRun.exit /= "none" /\ testRun.failedAt = 0) =>
         testRun.exit = (IF testRun.child \in {"0", "null"} THEN "0" ELSE testRun.child)

\* a run of each kind that met -32601 at TEST 3, went through TEST 4 and ended
\* with exit code 0
C11_Witness ==
  /\ testRun.client = "McpTestClient"
  /\ testRun.replies["resources/list"] = "-32601"
  /\ testRun.replies["tools/call"] /= "no"
  /\ testRun.exit = "0"

\* ---- start of a script
\* the credential the script cannot do without: the selected provider's key for
\* the LLM clients, the Notion token for the launchers and the test clients
MissingCredential ==
  IF startup.script \in {"LLMMcpNotionClient", "GenericMcpClient"}
  THEN selectedKey(startup.useOpenRouter, startup.llmProvider) \notin startup.env
  ELSE ~notionToken(startup.env)

\* C15: a script started without its required credential spawns no child and
\* sends no HTTP request, and once its checks are done it has exited with a
\* non-zero code.
C15_MissingCredentialStopsStartup ==
  (startup.script \in Scripts /\ MissingCredential) =>
    /\ ~startup.spawned
    /\ ~startup.sent
    /\ startup.exit \in {"none", "1"}
    /\ startup.pc > 1 => startup.exit = "1"

\* ---- printed lines
SecretTokens == {console.notionToken, console.authToken, console.serverToken} \ {<<>>}

\* C17: every printed line that shows characters of a token shows at most its
\* first 10 characters, and never the whole token.
C17_OnlyTruncatedTokens ==
  \A line \in console.printed :
    line.shown /= <<>> =>
      /\ Len(line.shown) <= 10
      /\ \E token \in SecretTokens : line.shown = SubSeq(token, 1, Len(line.shown))
      /\ line.shown \notin SecretTokens

\* ---- pendingRequests
\* the 30 s timer of call c fires in this step
Fires(c) == c \in Sent /\ calls[c].timer = "armed" /\ calls'[c].timer = "fired"

\* C29: pendingRequests holds exactly the calls that are not settled yet, each
\* under its own id, so that a call is settled only while it has its entry and
\* loses it in the same step; a settled call keeps its outcome for ever; the
\* timer of a call that a reply has answered changes neither pendingRequests
\* nor any call's outcome when it fires, and writes nothing to the child; when
\* no sent call is pending, pendingRequests is empty.
C29_SettledOnceAndRemoved ==
  /\ [](/\ DOMAIN pendingRequests = {calls[c].id : c \in {b \in Sent : calls[b].outcome = "pending"}}
        /\ \A id \in DOMAIN pendingRequests : calls[pendingRequests[id]].id = id
        /\ ((\A c \in Sent : calls[c].outcome /= "pending") => pendingRequests = <<>>))
  /\ [][\A c \in Sent :
          /\ calls[c].outcome /= "pending" =>
               /\ calls'[c].outcome = calls[c].outcome
               /\ calls'[c].settledBy = calls[c].settledBy
          /\ (Fires(c) /\ calls[c].outcome \in {"resolved", "rejected"}) =>
               /\ pendingRequests' = pendingRequests
               /\ \A b \in Sent : calls'[b].outcome = calls[b].outcome
               /\ stdin' = stdin]_vars

\* the timer of an answered call has fired while a later call was pending, and
\* that call is pending still
C29_Witness ==
  /\ Len(calls) >= 2
  /\ calls[1].outcome \in {"resolved", "rejected"}
  /\ calls[1].timer = "fired"
  /\ calls[2].outcome = "pending"
  /\ DOMAIN pendingRequests = {calls[2].id}

\* ---- order of the tool entries
\* the index of the nearest entry before i that requested tools (0 if none)
RECURSIVE Requester(_)
Requester(i) ==
  IF i <= 1 THEN 0
  ELSE IF conversationHistory[i - 1].tool_calls /= <<>> THEN i - 1
  ELSE Requester(i - 1)

ToolEntries == {i \in 1..Len(conversationHistory) : conversationHistory[i].role = "tool"}

InTurn == pc \in {"awaitTool", "awaitDirect"}

\* C22: while invocation k of a reply awaits its result, invocations 1..k-1
\* have their tool entry in the transcript, in the order of the reply, and no
\* later invocation has been started; in every transcript the j-th entry after
\* an assistant message that requested tools answers the j-th invocation of it.
C22_InvocationsOneAtATime ==
  /\ InTurn =>
       /\ Len(turnLog) = turn.k
       /\ turnLog[turn.k].id = turn.calls[turn.k].id
       /\ turnLog[turn.k].entry = "none"
       /\ Len(TurnEntries) = turn.k - 1
       /\ \A j \in 1..(turn.k - 1) :
            /\ turnLog[j].entry /= "none"
            /\ TurnEntries[j].role = "tool"
            /\ TurnEntries[j].tool_call_id = turn.calls[j].id
  /\ \A i \in ToolEntries :
       LET a == Requester(i) IN
       /\ a > 0
       /\ i - a <= Len(conversationHistory[a].tool_calls)
       /\ conversationHistory[i].tool_call_id = conversationHistory[a].tool_calls[i - a].id

\* the second invocation of a reply awaits its result after the first was
\* answered
C22_Witness ==
  /\ pc = "awaitTool"
  /\ turn.k = 2
  /\ turnLog[1].requests >= 1
  /\ Len(TurnEntries) = 1

\* ---- growth of the transcript
IsPrefix(p, q) == Len(p) <= Len(q) /\ SubSeq(q, 1, Len(p)) = p

\* C23: every step of processQuery, the failing ones included, and every new
\* question leave the transcript it found as a prefix of the transcript it
\* leaves.
C23_TranscriptOnlyGrows ==
  [][IsPrefix(conversationHistory, conversationHistory')]_vars

\* a second question has failed on the model, after a first one that ran a tool
C23_Witness ==
  /\ qStats.queries = 2
  /\ pc = "failed"
  /\ qResult.value \in {"Erreur LLM", "Aucune réponse du LLM"}
  /\ \E i \in 1..Len(conversationHistory) : conversationHistory[i].role = "tool"
  /\ conversationHistory[Len(conversationHistory)].role = "user"

\* ---- back-references of the tool entries
\* the index of the nearest assistant entry before i (0 if none)
RECURSIVE Assistant(_)
Assistant(i) ==
  IF i <= 1 THEN 0
  ELSE IF conversationHistory[i - 1].role = "assistant" THEN i - 1
  ELSE Assistant(i - 1)

\* C24: the tool_call_id of every tool entry is the id of an invocation listed
\* in the nearest assistant entry before it, and no two tool entries behind the
\* same assistant entry carry the same id.
C24_ToolEntriesAnswerInvocations ==
  /\ \A i \in ToolEntries :
       LET a == Assistant(i) IN
       /\ a > 0
       /\ \E k \in 1..Len(conversationHistory[a].tool_calls) :
            conversationHistory[a].tool_calls[k].id = conversationHistory[i].tool_call_id
  /\ \A i, j \in ToolEntries :
       (i /= j /\ Assistant(i) = Assistant(j)) =>
         conversationHistory[i].tool_call_id /= conversationHistory[j].tool_call_id

\* a reply with two invocations, the first of which threw: both are answered
C24_Witness ==
  /\ Len(turn.calls) = 2
  /\ Len(TurnEntries) = 2
  /\ TurnEntries[1].role = "tool" /\ TurnEntries[1].content = "Erreur: thrown"
  /\ TurnEntries[2].role = "tool" /\ TurnEntries[2].tool_call_id = 2
  /\ pc = "awaitModel"

\* ---- session id of the LLM clients' channel
\* C27 (as stated): in McpNotionClient, the session id is the value of the last
\* mcp-session-id header any response carried, and every later request carries
\* that value.
C27_AnyResponseReplacesSession ==
  hClient = "McpNotionClient" =>
    /\ hInit.lastSid /= "none" => hSessionId = hInit.lastSid
    /\ (hLast.method /= "none" /\ hLast.lastSid /= "none") => hLast.header = hLast.lastSid

\* C27 (amended): in McpNotionClient, the session id is the value of the last
\* mcp-session-id header carried by a response with a 2xx status, whichever
\* request it answered and whether or not its body parsed (the constructor's
\* UUID before any such response); every later request other than initialize
\* carries that value, and initialize carries none.
C27_OkResponseReplacesSession ==
  hClient = "McpNotionClient" =>
    /\ hSessionId = (IF hInit.lastOkSid /= "none" THEN hInit.lastOkSid ELSE "uuid")
    /\ hLast.method \notin {"none", "initialize"} =>
         hLast.header = (IF hLast.lastOkSid /= "none" THEN hLast.lastOkSid ELSE "uuid")
    /\ hLast.method = "initialize" => hLast.header = "none"

\* a request that carries the session id of a response that was not the
\* initialize response
C27_Witness ==
  /\ hClient = "McpNotionClient"
  /\ hLast.method = "tools/call"
  /\ hLast.afterInit
  /\ hLast.initSid = "s1"
  /\ hLast.replaced
  /\ hLast.header = "test-session-123"

\* ---- event-stream bodies
\* the lines of the body that hold a record which parses as JSON
Parsing == {i \in 1..Len(sse.body) :
              parsedText(sse.body[i]) /= "skip" /\ JSONparseText(parsedText(sse.body[i])).ok}

\* C21: makeRequest returns the first record of the body, in line order, that
\* parses as JSON, and throws if and only if no record parses.
C21_FirstJsonRecordReturned ==
  sse.out.kind \in {"returned", "thrown"} =>
    IF Parsing = {}
      THEN sse.out.kind = "thrown"
      ELSE LET first == CHOOSE i \in Parsing : \A j \in Parsing : i <= j IN
           /\ sse.out.kind = "returned"
           /\ sse.out.envelope = JSONparseText(parsedText(sse.body[first])).value

\* ---- tool results to entries
Pushed == extract.entry.of \notin {"none", "pending"}

\* C25: the text extracted from a tool result is cut to the client's maximum
\* length (4000 in src/src/llm-mcp-client.ts, 50000 in the two other clients)
\* before it is appended to the transcript.
C25_ExtractedTextIsCut ==
  (Pushed /\ extract.toolResult.kind /= "thrown") =>
    LET text == extractedText(extract.client, extract.toolResult)
        max  == IF extract.client = "LLMMcpNotionClient" THEN 4000 ELSE 50000
    IN /\ extract.entry.of = text.of
       /\ extract.entry.len = (IF text.len <= max THEN text.len ELSE max)

C25_Witness ==
  /\ Pushed
  /\ extract.client = "LLMMcpNotionClient"
  /\ extract.toolResult.kind = "content"
  /\ extractedText(extract.client, extract.toolResult).len = 4001
  /\ extract.entry.len = 4000

\* the blocks of type text that carry a text
TextBlocks(content) == {i \in 1..Len(content) : content[i].type = "text" /\ content[i].len > 0}

\* C26: when a successful tool result exposes a content list, the entry is the
\* text of the first block of type text of the list (up to the cut); when it
\* exposes no content list, the entry is the JSON of the whole result.
C26_FirstTextBlockOrJson ==
  Pushed =>
    /\ (extract.toolResult.kind = "content" /\ TextBlocks(extract.toolResult.content) /= {}) =>
         LET content == extract.toolResult.content
             first == CHOOSE i \in TextBlocks(content) : \A j \in TextBlocks(content) : i <= j
         IN extract.entry = truncate(Text("block 1", content[first].len),
                                     maxLength(extract.client))
    /\ extract.toolResult.kind = "object" => extract.entry.of = "JSON of result"

\* C30: every tool entry, the error markers of a throwing invocation
\* included, is no longer than the client's maximum length.
C30_EveryEntryBounded ==
  Pushed => extract.entry.len <= maxLength(extract.client)

\* ---- LLMClient.chat
\* C28: every model call hands the endpoint the full current transcript (the
\* system entry, the prior turns, every tool entry pushed so far) and the tool
\* catalog, whatever the provider configuration.
C28_FullTranscriptAndCatalog ==
  chat.pc = "awaitModel" =>
    /\ chat.request.messages = chat.messages
    /\ chat.request.tools = chat.tools

====
